---- MODULE Spec2Model ----
(***************************************************************************)
(* PyrePortal: the scan orchestration and offline-delivery subsystem.      *)
(*                                                                         *)
(* Part I   src-tauri/src/cache.rs  the file-backed offline scan cache     *)
(* Part II  src-tauri/src/api.rs    live submission and the cache drain    *)
(* Part III src-tauri/src/rfid.rs   the background scan service            *)
(***************************************************************************)
EXTENDS Integers, Sequences, FiniteSets, TLC

(***************************************************************************)
(* Bounds of the model.                                                    *)
(***************************************************************************)
\* Clock readings (Utc::now) the model hands out; each PendingScan::new takes a
\* later one, so this also bounds the number of records ever created.
MaxClock == 2
\* Clock readings per millisecond: created_at is finer than the file name's
\* timestamp_millis().
TicksPerMs == 2
\* File-system operations that may fail in one behaviour.
MaxFaults == 1

(***************************************************************************)
(* Program constants.                                                      *)
(***************************************************************************)
\* api.rs:253  if scan.attempts >= 3
MaxAttempts == 3

Tags == {"04AA", "04BB"}
DeviceId == "pyreportal-dev"
\* Option<i32> values: None is <<>>, Some(x) is <<x>>.
NoneOpt == <<>>
Some(x) == <<x>>
RoomId == Some(7)

Drainers == {"timer", "spawned"}

VARIABLES
    \* ---- cache.rs
    files,              \* the cache directory: file name -> file contents
    clock,              \* the last reading of Utc::now() handed out
    epoch,              \* where in its millisecond the clock stood at start
    \* ---- api.rs
    NETWORK_AVAILABLE,  \* static AtomicBool (api.rs:12)
    PROCESSING,         \* static AtomicBool inside process_cached_scans
    AUTH_INFO,          \* auth.rs:14: TRUE when a staff member is logged in
    stable,             \* environment: network, credential and server stay good
    pc,                 \* where each process_cached_scans caller stands
    cached_scans,       \* per caller: the records of the pass still to visit
    scan,               \* per caller: the record being sent
    \* ---- history, read only by the properties
    delivered,          \* created_at of records whose drain send succeeded
    ioFaults,           \* file-system failures so far
    ret,                \* the last send_tag_to_server call: its branch and result
    \* ---- rfid.rs
    platform,           \* the cfg the build was made for: "hardware" or "mock"
    is_running,         \* RfidServiceState.is_running
    should_run,         \* RfidServiceState.should_run
    command_rx,         \* the unbounded command channel
    svc,                \* where background_scanning_loop stands
    scan_task_handle,   \* its local Option<JoinHandle>: 0 is None
    task,               \* per spawned continuous_scan_loop task: its state
    worker,             \* per task: its scan loop (the blocking thread on hardware)
    SPI_ACCESS_MUTEX,   \* who holds the SPI gate: 0 is nobody
    detached,           \* the handles given to detached join tasks
    oneshot,            \* where the scan_rfid_single call stands
    call,               \* the frontend's start, stop, status or recover call
    stopped,            \* history: a Stop was handled and no Start came after it
    handled,            \* history: what the loop did with the last command it took
    reader,             \* what the MFRC522 answers to the next wupa/reqa and selects
    error_count,        \* RfidServiceState.error_count
    last_error,         \* RfidServiceState.last_error: <<>> is None
    scanned,            \* what scan_with_persistent_scanner_sync returned: <<>> before
    last_scan,          \* RfidServiceState.last_scan: <<>> is None
    readerFaults        \* environment: real faults the reader still answers with

cacheVars == <<files, clock, epoch>>
apiVars == <<NETWORK_AVAILABLE, PROCESSING, AUTH_INFO, stable, pc, cached_scans, scan>>
histVars == <<delivered, ioFaults, ret>>
serviceVars == <<platform, is_running, should_run, command_rx, svc, scan_task_handle,
                 task, worker, SPI_ACCESS_MUTEX, detached, oneshot, call, stopped,
                 handled>>
pollVars == <<reader, error_count, last_error, scanned, last_scan, readerFaults>>
rfidVars == <<serviceVars, pollVars>>
vars == <<cacheVars, apiVars, histVars, rfidVars>>

(***************************************************************************)
(* Part I: cache.rs                                                        *)
(***************************************************************************)

\* PendingScan::new: attempts 0, created_at the clock reading.
PendingScan_new(tag_id, terminal_id, timestamp, room_id, activity_id, staff_id, now) ==
    [tag_id |-> tag_id, terminal_id |-> terminal_id, timestamp |-> timestamp,
     room_id |-> room_id, activity_id |-> activity_id, staff_id |-> staff_id,
     attempts |-> 0, created_at |-> now]

\* DateTime::timestamp_millis: the sub-millisecond part is dropped.
timestamp_millis(t) == (epoch + t) \div TicksPerMs

\* format!("scan_{}_{}.json", tag_id, created_at.timestamp_millis())
file_name(s) == <<s.tag_id, timestamp_millis(s.created_at)>>

\* serde_json::to_string(&scan): the fields in declaration order.
to_string(s) ==
    <<s.tag_id, s.terminal_id, s.timestamp, s.room_id, s.activity_id,
      s.staff_id, s.attempts, s.created_at>>

\* A file whose write failed after File::create truncated it.
Truncated == <<>>

\* serde_json::from_str::<PendingScan> succeeds.
parses(c) == Len(c) = 8

from_str(c) ==
    [tag_id |-> c[1], terminal_id |-> c[2], timestamp |-> c[3], room_id |-> c[4],
     activity_id |-> c[5], staff_id |-> c[6], attempts |-> c[7], created_at |-> c[8]]

Put(f, n, c) == [x \in DOMAIN f \cup {n} |-> IF x = n THEN c ELSE f[x]]
Del(f, n) == [x \in DOMAIN f \ {n} |-> f[x]]

CacheFaults == {"none", "create", "write"}
RemoveFaults == {"none", "readdir", "unlink"}
ListFaults == {"none", "readdir"}
Faults(x) == IF x = "none" THEN 0 ELSE 1

\* cache_scan: File::create (truncating), then write_all.
cache_scan(f, s, fault) ==
    CASE fault = "create" -> [files |-> f, ok |-> FALSE]
      [] fault = "write"  -> [files |-> Put(f, file_name(s), Truncated), ok |-> FALSE]
      [] OTHER            -> [files |-> Put(f, file_name(s), to_string(s)), ok |-> TRUE]

\* A removal that matches on the tag alone.
RemoveByTag(f, s, fault) ==
    [files |-> [x \in {y \in DOMAIN f : y[1] # s.tag_id} |-> f[x]], ok |-> TRUE]

\* remove_cached_scan: the first directory entry with the record's file name.
remove_cached_scan(f, s, fault) ==
    CASE fault = "readdir" -> [files |-> f, ok |-> FALSE]
      [] fault = "unlink" /\ file_name(s) \in DOMAIN f -> [files |-> f, ok |-> FALSE]
      [] OTHER -> [files |-> Del(f, file_name(s)), ok |-> TRUE]

\* update_cached_scan: remove_cached_scan(scan)?; cache_scan(scan.clone())
update_cached_scan(f, s, rfault, cfault) ==
    LET r == remove_cached_scan(f, s, rfault)
    IN  IF r.ok THEN cache_scan(r.files, s, cfault) ELSE r

\* The orders in which fs::read_dir may yield the entries.
DirOrders(f) ==
    {o \in [1..Cardinality(DOMAIN f) -> DOMAIN f] :
        \A i, j \in 1..Cardinality(DOMAIN f) : i # j => o[i] # o[j]}

\* The parsed records in directory order; unreadable files are skipped.
RECURSIVE ReadAll(_, _)
ReadAll(f, o) ==
    IF o = <<>> THEN <<>>
    ELSE IF parses(f[Head(o)]) THEN <<from_str(f[Head(o)])>> \o ReadAll(f, Tail(o))
         ELSE ReadAll(f, Tail(o))

\* scans.sort_by(|a, b| a.created_at.cmp(&b.created_at)): a stable sort.
RECURSIVE InsertByCreatedAt(_, _)
InsertByCreatedAt(x, sorted) ==
    IF sorted = <<>> THEN <<x>>
    ELSE IF x.created_at < Head(sorted).created_at THEN <<x>> \o sorted
         ELSE <<Head(sorted)>> \o InsertByCreatedAt(x, Tail(sorted))

\* The records left in directory order.
Unsorted(s) == s

RECURSIVE sort_by_created_at(_)
sort_by_created_at(s) ==
    IF s = <<>> THEN <<>>
    ELSE InsertByCreatedAt(s[Len(s)], sort_by_created_at(SubSeq(s, 1, Len(s) - 1)))

\* get_cached_scans
get_cached_scans(f, order, fault) ==
    IF fault = "readdir" THEN [scans |-> <<>>, ok |-> FALSE]
    ELSE [scans |-> sort_by_created_at(ReadAll(f, order)), ok |-> TRUE]

(***************************************************************************)
(* Part II: api.rs                                                         *)
(***************************************************************************)

\* What GET /health can answer (check_network), and what POST /rfid/scan can: the
\* network and the server are the environment, free until it has stabilised.
Probes == IF stable THEN {TRUE} ELSE BOOLEAN
SubmitAnswers ==
    IF stable THEN {"success"} ELSE {"success", "401", "403", "404", "500", "transport"}
DrainAnswers ==
    IF stable THEN {"success"} ELSE {"success", "401", "500", "transport"}

\* A network that always counts as reachable.
AlwaysReachable(probe) == FALSE

\* `!NETWORK_AVAILABLE.load() && !check_network().await`: the probe runs only when
\* the flag is down, and check_network stores what it finds.
NetworkUnreachable(probe) == ~NETWORK_AVAILABLE /\ ~probe
FlagAfterProbe(probe) == IF NETWORK_AVAILABLE THEN TRUE ELSE probe

\* auth::get_auth_token / auth::get_user_id
get_auth_token == IF AUTH_INFO THEN Some("token") ELSE NoneOpt
get_user_id == IF AUTH_INFO THEN Some(1) ELSE NoneOpt

NoScan == PendingScan_new("", "", 0, NoneOpt, NoneOpt, NoneOpt, 0)

\* How a submission failed, as the environment made it fail: the network could
\* not be reached or the credential was missing or refused ("netauth"), or the
\* server answered ("answered").
FailureClass(cause) ==
    IF cause \in {"unreachable", "no_token", "401", "transport"} THEN "netauth"
    ELSE "answered"

\* The caching branches with the 401 answer treated like the other statuses.
CachingCausesWithout401 == {"unreachable", "no_token", "transport"}

\* The branches of send_tag_to_server that cache the scan.
CachingCauses == {"unreachable", "no_token", "401", "transport"}

\* The branch send_tag_to_server takes (api.rs:98, 118, 146-200).
SubmitCause(probe, answer) ==
    IF NetworkUnreachable(probe) THEN "unreachable"
    ELSE IF get_auth_token = NoneOpt THEN "no_token"
    ELSE answer

\* api.rs:102-114, 122-134, 162-174, 187-199: PendingScan::new, cache_scan(..)?,
\* and the soft error.
SubmitCached(tag_id, cause, probe) ==
    /\ clock < MaxClock
    /\ \E now \in (clock + 1)..MaxClock, cf \in CacheFaults :
        LET s == PendingScan_new(tag_id, DeviceId, now, RoomId, NoneOpt, get_user_id, now)
            r == cache_scan(files, s, cf)
        IN  /\ ioFaults + Faults(cf) <= MaxFaults
            /\ files' = r.files
            /\ clock' = now
            /\ NETWORK_AVAILABLE' =
                   IF cause = "transport" THEN FALSE ELSE FlagAfterProbe(probe)
            /\ ioFaults' = ioFaults + Faults(cf)
            /\ ret' = [failure |-> FailureClass(cause),
                       result |-> IF r.ok THEN "SoftErr" ELSE "CacheIoErr"]
    /\ UNCHANGED <<epoch, PROCESSING, AUTH_INFO, stable, pc, cached_scans, scan,
                   delivered>>
    /\ UNCHANGED rfidVars

\* api.rs:148-157, 176-178: the answers that are not cached. A success spawns
\* process_cached_scans; 404 is Ok(None); 403 and the other statuses are errors.
SubmitAnswered(cause, probe) ==
    /\ NETWORK_AVAILABLE' = FlagAfterProbe(probe)
    /\ pc' = IF cause = "success" /\ pc["spawned"] = "idle"
             THEN [pc EXCEPT !["spawned"] = "enter"] ELSE pc
    /\ ret' = [failure |-> FailureClass(cause),
               result |-> IF cause \in {"success", "404"} THEN "Ok" ELSE "HardErr"]
    /\ UNCHANGED <<cacheVars, PROCESSING, AUTH_INFO, stable, cached_scans, scan,
                   delivered, ioFaults>>
    /\ UNCHANGED rfidVars

send_tag_to_server ==
    \E tag_id \in Tags, probe \in Probes, answer \in SubmitAnswers :
        IF SubmitCause(probe, answer) \in CachingCauses
        THEN SubmitCached(tag_id, SubmitCause(probe, answer), probe)
        ELSE SubmitAnswered(SubmitCause(probe, answer), probe)

\* Where a caller of process_cached_scans goes when the function returns: the
\* spawned task ends; the timer task probes the network if the flag is down
\* (api.rs:317) and sleeps again.
AfterPass(d, flag) == IF d = "timer" /\ ~flag THEN "post" ELSE "idle"

\* A return that leaves the flag as it is.
LeaveWithoutGuard(d, flag) ==
    /\ PROCESSING' = PROCESSING
    /\ pc' = [pc EXCEPT ![d] = AfterPass(d, flag)]
    /\ cached_scans' = [cached_scans EXCEPT ![d] = <<>>]
    /\ scan' = [scan EXCEPT ![d] = NoScan]

\* The scopeguard: PROCESSING.store(false) on every return after the exchange.
Leave(d, flag) ==
    /\ PROCESSING' = FALSE
    /\ pc' = [pc EXCEPT ![d] = AfterPass(d, flag)]
    /\ cached_scans' = [cached_scans EXCEPT ![d] = <<>>]
    /\ scan' = [scan EXCEPT ![d] = NoScan]

\* An exchange that does not look at the flag it sets.
ExchangeUnguarded(d) ==
    /\ pc' = [pc EXCEPT ![d] = "prepare"]
    /\ PROCESSING' = TRUE

\* PROCESSING.compare_exchange(false, true): the caller that finds it set
\* returns at once (api.rs:212-214).
Exchange(d) ==
    IF PROCESSING
    THEN /\ pc' = [pc EXCEPT ![d] = AfterPass(d, NETWORK_AVAILABLE)]
         /\ UNCHANGED PROCESSING
    ELSE /\ pc' = [pc EXCEPT ![d] = "prepare"]
         /\ PROCESSING' = TRUE

\* start_cache_processor: the 300 s sleep is over and process_cached_scans is
\* called.
TimerFire ==
    /\ pc["timer"] = "idle"
    /\ Exchange("timer")
    /\ UNCHANGED <<cacheVars, NETWORK_AVAILABLE, AUTH_INFO, stable,
                   cached_scans, scan, histVars>>
    /\ UNCHANGED rfidVars

\* start_cache_processor: check_network after the pass answers.
TimerPost ==
    /\ pc["timer"] = "post"
    /\ \E probe \in Probes : NETWORK_AVAILABLE' = probe
    /\ pc' = [pc EXCEPT !["timer"] = "idle"]
    /\ UNCHANGED <<cacheVars, PROCESSING, AUTH_INFO, stable, cached_scans, scan, histVars>>
    /\ UNCHANGED rfidVars

\* The task spawned at api.rs:154 starts to run.
DrainEnter ==
    /\ pc["spawned"] = "enter"
    /\ Exchange("spawned")
    /\ UNCHANGED <<cacheVars, NETWORK_AVAILABLE, AUTH_INFO, stable,
                   cached_scans, scan, histVars>>
    /\ UNCHANGED rfidVars

\* api.rs:221-245: network check, token, get_cached_scans, the empty check.
DrainPrepare(d) ==
    /\ pc[d] = "prepare"
    /\ \E probe \in Probes, order \in DirOrders(files), lf \in ListFaults :
        LET l == get_cached_scans(files, order, lf)
            listed == ~NetworkUnreachable(probe) /\ get_auth_token # NoneOpt
        IN  /\ ~listed => lf = "none"
            /\ ioFaults + Faults(lf) <= MaxFaults
            /\ ioFaults' = ioFaults + Faults(lf)
            /\ NETWORK_AVAILABLE' = FlagAfterProbe(probe)
            /\ IF listed /\ l.ok /\ l.scans # <<>>
               THEN /\ cached_scans' = [cached_scans EXCEPT ![d] = l.scans]
                    /\ pc' = [pc EXCEPT ![d] = "loop"]
                    /\ UNCHANGED <<PROCESSING, scan>>
               ELSE Leave(d, FlagAfterProbe(probe))
    /\ UNCHANGED <<cacheVars, AUTH_INFO, stable, delivered, ret>>
    /\ UNCHANGED rfidVars

\* The cap test written with >, and left out.
AtCapOffByOne(s) == s.attempts > MaxAttempts
NeverAtCap(s) == FALSE

\* The increment left out.
NoIncrement(s) == s

\* api.rs:253: the attempt cap.
AtCap(s) == s.attempts >= MaxAttempts

\* api.rs:259: scan.attempts += 1
IncrementAttempts(s) == [s EXCEPT !.attempts = s.attempts + 1]

\* api.rs:251-280: the next record of the pass: skip it at the cap, else count the
\* attempt, rewrite the file (a failure is only logged) and start the request.
DrainNext(d) ==
    /\ pc[d] = "loop"
    /\ cached_scans[d] # <<>>
    /\ LET s == Head(cached_scans[d])
       IN  IF AtCap(s)
           THEN /\ cached_scans' = [cached_scans EXCEPT ![d] = Tail(cached_scans[d])]
                /\ UNCHANGED <<files, scan, ioFaults, pc>>
           ELSE \E rf \in RemoveFaults, cf \in CacheFaults :
                LET s1 == IncrementAttempts(s)
                    u == update_cached_scan(files, s1, rf, cf)
                    n == IF rf = "none" THEN Faults(cf) ELSE 1
                IN  /\ rf # "none" => cf = "none"
                    /\ ioFaults + n <= MaxFaults
                    /\ ioFaults' = ioFaults + n
                    /\ files' = u.files
                    /\ scan' = [scan EXCEPT ![d] = s1]
                    /\ cached_scans' = [cached_scans EXCEPT ![d] = Tail(cached_scans[d])]
                    /\ pc' = [pc EXCEPT ![d] = "send"]
    /\ UNCHANGED <<clock, epoch, NETWORK_AVAILABLE, PROCESSING, AUTH_INFO, stable,
                   delivered, ret>>
    /\ UNCHANGED rfidVars

\* The for loop is over: the function returns.
DrainDone(d) ==
    /\ pc[d] = "loop"
    /\ cached_scans[d] = <<>>
    /\ Leave(d, NETWORK_AVAILABLE)
    /\ UNCHANGED <<cacheVars, NETWORK_AVAILABLE, AUTH_INFO, stable, histVars>>
    /\ UNCHANGED rfidVars

\* api.rs:281-304: the answer to the request of the record being sent.
DrainAnswer(d) ==
    /\ pc[d] = "send"
    /\ \E answer \in DrainAnswers :
         CASE answer = "success" ->
                \E rf \in RemoveFaults :
                  LET m == remove_cached_scan(files, scan[d], rf)
                  IN  /\ ioFaults + Faults(rf) <= MaxFaults
                      /\ ioFaults' = ioFaults + Faults(rf)
                      /\ files' = m.files
                      /\ delivered' = delivered \cup {scan[d].created_at}
                      /\ pc' = [pc EXCEPT ![d] = "loop"]
                      /\ scan' = [scan EXCEPT ![d] = NoScan]
                      /\ UNCHANGED <<NETWORK_AVAILABLE, PROCESSING, cached_scans>>
           [] answer = "401" ->
                /\ Leave(d, NETWORK_AVAILABLE)
                /\ UNCHANGED <<files, NETWORK_AVAILABLE, delivered, ioFaults>>
           [] answer = "transport" ->
                /\ NETWORK_AVAILABLE' = FALSE
                /\ Leave(d, FALSE)
                /\ UNCHANGED <<files, delivered, ioFaults>>
           [] OTHER ->
                /\ pc' = [pc EXCEPT ![d] = "loop"]
                /\ scan' = [scan EXCEPT ![d] = NoScan]
                /\ UNCHANGED <<files, NETWORK_AVAILABLE, PROCESSING, cached_scans,
                               delivered, ioFaults>>
    /\ UNCHANGED <<clock, epoch, AUTH_INFO, stable, ret>>
    /\ UNCHANGED rfidVars

process_cached_scans ==
    \/ DrainEnter
    \/ \E d \in Drainers :
        \/ DrainPrepare(d)
        \/ DrainNext(d)
        \/ DrainDone(d)
        \/ DrainAnswer(d)

start_cache_processor == TimerFire \/ TimerPost

\* auth::set_auth_info: a staff member logs in.
set_auth_info ==
    /\ ~stable
    /\ ~AUTH_INFO
    /\ AUTH_INFO' = TRUE
    /\ UNCHANGED <<cacheVars, NETWORK_AVAILABLE, PROCESSING, stable,
                   pc, cached_scans, scan, histVars>>
    /\ UNCHANGED rfidVars

\* auth::clear_auth_info
clear_auth_info ==
    /\ ~stable
    /\ AUTH_INFO
    /\ AUTH_INFO' = FALSE
    /\ UNCHANGED <<cacheVars, NETWORK_AVAILABLE, PROCESSING, stable,
                   pc, cached_scans, scan, histVars>>
    /\ UNCHANGED rfidVars

\* Environment: from here on the network is up, a staff member stays logged in
\* with a valid credential, and the server accepts scans.
Stabilizes ==
    /\ ~stable
    /\ stable' = TRUE
    /\ AUTH_INFO' = TRUE
    /\ UNCHANGED <<cacheVars, NETWORK_AVAILABLE, PROCESSING,
                   pc, cached_scans, scan, histVars>>
    /\ UNCHANGED rfidVars


(***************************************************************************)
(* Part III: rfid.rs, one poll of the reader                               *)
(***************************************************************************)

\* rfid.rs:685
MAX_RETRIES == 5
\* The error_count a poll may start from.
MaxErrorCount == 1

\* UIDs a card may answer a select with, as bytes.
Uids == {<<4, 171>>, <<255, 0, 9>>}
\* mfrc522::Error variants a select may fail with, by their Debug text.
SelectErrors == {"IncompleteFrame", "Collision", "Timeout"}
SelectOutcomes == [ok : {TRUE}, uid : Uids] \cup [ok : {FALSE}, error : SelectErrors]

HexDigit(n) ==
    <<"0", "1", "2", "3", "4", "5", "6", "7", "8", "9", "A", "B", "C", "D", "E", "F">>[n + 1]

\* format_uid: each byte as {:02X}, joined with ":"; a string is the sequence
\* of its characters.
RECURSIVE format_uid(_)
format_uid(bytes) ==
    IF bytes = <<>> THEN <<>>
    ELSE LET hex == <<HexDigit(Head(bytes) \div 16), HexDigit(Head(bytes) % 16)>>
         IN  IF Len(bytes) = 1 THEN hex ELSE hex \o <<":">> \o format_uid(Tail(bytes))

\* A select that is tried again after every error.
AlwaysRetried(error) == TRUE

\* A select that is never tried again.
NeverRetried(error) == FALSE

\* last_error.contains("IncompleteFrame")
Retryable(error) == error = "IncompleteFrame"

Ok(value) == [ok |-> TRUE, value |-> value]
Err(kind, detail) == [ok |-> FALSE, kind |-> kind, detail |-> detail]

\* select_card_with_retry from attempt `attempt` on, the selects answered in
\* the order of `selects`.
RECURSIVE select_card_with_retry(_, _)
select_card_with_retry(selects, attempt) ==
    LET answer == selects[attempt + 1]
    IN  IF answer.ok THEN Ok(format_uid(answer.uid))
        ELSE IF ~Retryable(answer.error) \/ attempt = MAX_RETRIES
               THEN Err("Select failed", answer.error)
               ELSE select_card_with_retry(selects, attempt + 1)

\* The calls select_card_with_retry makes on the reader from attempt `attempt`
\* on, in their order: select, the hlta before each return, and the 10 ms sleep
\* before a retry.
RECURSIVE select_calls(_, _)
select_calls(selects, attempt) ==
    LET answer == selects[attempt + 1]
    IN  IF answer.ok THEN <<"select", "hlta">>
        ELSE IF ~Retryable(answer.error) \/ attempt = MAX_RETRIES
               THEN <<"select", "hlta">>
               ELSE <<"select", "sleep">> \o select_calls(selects, attempt + 1)

\* scan_with_persistent_scanner_sync: wupa().or_else(reqa()) found a card or
\* did not.
scan_with_persistent_scanner_sync(r) ==
    IF r.card THEN select_card_with_retry(r.selects, 0)
    ELSE Err("No card detected", "")

\* A test that lets every error count.
NothingBenign(error) == FALSE

\* The test of handle_scan_error and of the loop: the lowercased message
\* contains "no card" or "timeout". Of the messages of the model those of the
\* two platforms for an empty field do, and the Debug text of Error::Timeout.
Benign(error) ==
    \/ error.kind \in {"No card detected", "Scan timeout - no card detected"}
    \/ error.detail = "Timeout"

\* handle_successful_scan: last_scan is the tag, last_error is cleared.
handle_successful_scan(tag_id) ==
    /\ last_scan' = Some(tag_id)
    /\ last_error' = NoneOpt
    /\ UNCHANGED error_count

\* handle_scan_error: a benign error returns at once, another is counted and
\* recorded.
handle_scan_error(error) ==
    /\ IF Benign(error)
         THEN UNCHANGED <<error_count, last_error>>
         ELSE error_count' = error_count + 1 /\ last_error' = Some(error)
    /\ UNCHANGED last_scan

\* One turn of run_hardware_scan_loop_sync (rfid.rs:448-474): the scan, then
\* handle_successful_scan or handle_scan_error.
PollOnce ==
    /\ scanned = NoneOpt
    /\ LET result == scan_with_persistent_scanner_sync(reader)
       IN  /\ scanned' = Some(result)
           /\ IF result.ok
                THEN handle_successful_scan(result.value)
                ELSE handle_scan_error(result)
    /\ UNCHANGED <<reader, readerFaults, serviceVars, cacheVars, apiVars, histVars>>

(***************************************************************************)
(* Part IV: rfid.rs, the scan service                                      *)
(***************************************************************************)

\* continuous_scan_loop tasks spawned in one behaviour.
MaxTasks == 2
\* Commands waiting in the channel at one time.
MaxQueue == 2
\* Real faults the reader answers with in one behaviour of the service.
MaxReaderFaults == 1

\* A threshold one fault later.
LaterThreshold == 15 + 1

\* rfid.rs:386 and rfid.rs:440
MAX_INIT_RETRIES == 3
MAX_CONSECUTIVE_ERRORS == 15
\* The waits of a stop in ms: STOP_JOIN_TIMEOUT (rfid.rs:171), the polls after
\* the abort (rfid.rs:271-277) and the bound of stop_rfid_service (rfid.rs:1031).
STOP_JOIN_TIMEOUT == 3000
SettlePolls == 10
SettlePollMs == 50
StopWaitMs == 4000

TaskIds == 1..MaxTasks
\* scan_task_handle = None (rfid.rs:322)
NoHandle == 0
\* SPI_ACCESS_MUTEX (rfid.rs:55): free, held by worker i (the value i), or held
\* by the guard of a one-shot command (rfid.rs:1158).
Unlocked == 0
OneShotGuard == 0 - 1
\* ... or by the guard of a status probe or of a recovery (rfid.rs:1068, 1128).
CommandGuard == 0 - 2

otherVars == <<cacheVars, apiVars, histVars, pollVars>>
\* ... of which an action that writes the error or scan fields leaves these.
restVars == <<cacheVars, apiVars, histVars, reader, scanned>>

Spawned == {i \in TaskIds : task[i] # "unborn"}
NextTask == Cardinality(Spawned) + 1
StartsIn(q) == Cardinality({k \in 1..Len(q) : q[k] = "Start"})

\* The worker of a task before it runs and after it has returned.
\* backoffs: the seconds of the sleeps after failed initialisations since the
\* last one that succeeded.
NoWorker == [pc |-> "unborn", init_attempts |-> 0, consecutive_errors |-> 0,
             backoffs |-> <<>>]
At(i, where) == worker[i].pc = where
Goto(i, where) == worker' = [worker EXCEPT ![i].pc = where]

\* send_service_command: the channel is unbounded, the model's is not.
send_service_command(command) ==
    /\ Len(command_rx) < MaxQueue
    /\ command_rx' = Append(command_rx, command)

\* start_rfid_service: the command is sent; the wait that follows only reads.
start_rfid_service ==
    /\ Cardinality(Spawned) + StartsIn(command_rx) < MaxTasks
    /\ send_service_command("Start")
    /\ stopped' = FALSE
    /\ UNCHANGED <<platform, handled, call, is_running, should_run, svc, scan_task_handle, task,
                   worker, SPI_ACCESS_MUTEX, detached, oneshot>>
    /\ UNCHANGED otherVars

\* stop_rfid_service
stop_rfid_service ==
    /\ send_service_command("Stop")
    /\ UNCHANGED <<platform, handled, call, is_running, should_run, svc, scan_task_handle, task,
                   worker, SPI_ACCESS_MUTEX, detached, oneshot, stopped>>
    /\ UNCHANGED otherVars

\* A loop that never looks whether its task has finished.
NeverReaps == FALSE

\* reap_finished_scan_task: is the handle there and finished?
reap_finished_scan_task == scan_task_handle # NoHandle /\ task[scan_task_handle] = "finished"

\* A Stop has been handled: no Start waits behind it.
StopHandled(q) == StartsIn(q) = 0

\* The test with state_running left out.
HandleOnly(h, r) == h # NoHandle

\* rfid.rs:220-225: already_running || state_running
AlreadyRunning(h, r) == h # NoHandle \/ r

\* A handler that starts a worker whatever runs already.
StartAnyway(h, r, s) ==
    /\ handled' = [command |-> "Start", reaped |-> reap_finished_scan_task,
                   did |-> "started"]
    /\ should_run' = TRUE
    /\ is_running' = TRUE
    /\ last_error' = NoneOpt
    /\ scan_task_handle' = NextTask
    /\ task' = [task EXCEPT ![NextTask] = "running"]
    /\ UNCHANGED <<svc, stopped>>

\* handle_start_command, after its reap left handle h and flags r (is_running)
\* and s (should_run).
handle_start_command(h, r, s) ==
    /\ handled' = [command |-> "Start",
                   reaped |-> reap_finished_scan_task,
                   did |-> IF ~AlreadyRunning(h, r) THEN "started"
                           ELSE IF r /\ ~s THEN "deferred" ELSE "ignored"]
    /\ IF AlreadyRunning(h, r)
         THEN /\ is_running' = (IF r /\ ~s THEN r ELSE TRUE)
              /\ last_error' = (IF r /\ ~s THEN last_error ELSE NoneOpt)
              /\ should_run' = s
              /\ scan_task_handle' = h
              /\ task' = task
         ELSE /\ should_run' = TRUE
              /\ is_running' = TRUE
              /\ last_error' = NoneOpt
              /\ scan_task_handle' = NextTask
              /\ task' = [task EXCEPT ![NextTask] = "running"]
    /\ UNCHANGED <<svc, stopped>>

\* handle_stop_command up to its first await: should_run is cleared; with a
\* handle the join is awaited, without one is_running is left as it is when
\* true and set false otherwise.
handle_stop_command(h, r) ==
    /\ handled' = [command |-> "Stop", reaped |-> reap_finished_scan_task,
                   did |-> IF h # NoHandle THEN "joining" ELSE "stopped"]
    /\ should_run' = FALSE
    /\ is_running' = r
    /\ last_error' = last_error
    /\ scan_task_handle' = h
    /\ task' = task
    /\ IF h # NoHandle
         THEN svc' = "join" /\ stopped' = stopped
         ELSE svc' = "recv" /\ stopped' = StopHandled(Tail(command_rx))

\* A receiver that takes the command sent last.
RecvNewest(q) == q[Len(q)]

\* command_rx.recv(): the command that has waited longest (rfid.rs:324).
recv(q) == Head(q)

\* background_scanning_loop: a command is received, a finished task is reaped,
\* the command is dispatched.
Recv ==
    /\ svc = "recv"
    /\ command_rx # <<>>
    /\ command_rx' = Tail(command_rx)
    /\ LET h == IF reap_finished_scan_task THEN NoHandle ELSE scan_task_handle
           r == IF reap_finished_scan_task THEN FALSE ELSE is_running
           s == IF reap_finished_scan_task THEN FALSE ELSE should_run
       IN  \/ recv(command_rx) = "Start" /\ handle_start_command(h, r, s)
           \/ recv(command_rx) = "Stop" /\ handle_stop_command(h, r)
    /\ UNCHANGED <<platform, call, worker, SPI_ACCESS_MUTEX, detached, oneshot>>
    /\ UNCHANGED <<error_count, last_scan, readerFaults, restVars>>

\* The is_running a left-alone flag keeps.
KeepsRunning(r) == r

\* set_running_state(state, false) once the task has been joined
\* (rfid.rs:267, 287)
SettledRunning(r) == FALSE

\* handle_stop_command: the task ended within STOP_JOIN_TIMEOUT.
StopJoined ==
    /\ svc = "join"
    /\ task[scan_task_handle] = "finished"
    /\ scan_task_handle' = NoHandle
    /\ is_running' = SettledRunning(is_running)
    /\ svc' = "recv"
    /\ stopped' = StopHandled(command_rx)
    /\ UNCHANGED <<platform, handled, call, should_run, command_rx, task, worker,
                   SPI_ACCESS_MUTEX, detached, oneshot>>
    /\ UNCHANGED otherVars

\* handle_stop_command: the join timed out, the task is aborted.
StopJoinTimeout ==
    /\ svc = "join"
    /\ task[scan_task_handle] # "finished"
    /\ task' = [task EXCEPT ![scan_task_handle] = "aborted"]
    /\ svc' = "settle"
    /\ UNCHANGED <<platform, handled, call, is_running, should_run, command_rx, scan_task_handle,
                   worker, SPI_ACCESS_MUTEX, detached, oneshot, stopped>>
    /\ UNCHANGED otherVars

\* handle_stop_command: one of the ten is_finished polls saw the task finished.
StopSettled ==
    /\ svc = "settle"
    /\ task[scan_task_handle] = "finished"
    /\ scan_task_handle' = NoHandle
    /\ is_running' = SettledRunning(is_running)
    /\ svc' = "recv"
    /\ stopped' = StopHandled(command_rx)
    /\ UNCHANGED <<platform, handled, call, should_run, command_rx, task, worker,
                   SPI_ACCESS_MUTEX, detached, oneshot>>
    /\ UNCHANGED otherVars

\* handle_stop_command: none of the ten polls saw it finished (it may finish
\* during the last sleep); the handle goes to a detached join task and
\* is_running is left as it is.
StopDetached ==
    /\ svc = "settle"
    /\ detached' = detached \cup {scan_task_handle}
    /\ scan_task_handle' = NoHandle
    /\ svc' = "recv"
    /\ stopped' = StopHandled(command_rx)
    /\ UNCHANGED <<platform, handled, call, is_running, should_run, command_rx, task, worker,
                   SPI_ACCESS_MUTEX, oneshot>>
    /\ UNCHANGED otherVars

background_scanning_loop ==
    Recv \/ StopJoined \/ StopJoinTimeout \/ StopSettled \/ StopDetached

\* set_running_state(&state_for_join, false) of the detached join task
JoinedRunning(r) == FALSE

\* The detached join task of handle_stop_command: the task it awaits has ended.
DetachedJoin(i) ==
    /\ i \in detached
    /\ task[i] = "finished"
    /\ detached' = detached \ {i}
    /\ should_run' = FALSE
    /\ is_running' = JoinedRunning(is_running)
    /\ UNCHANGED <<platform, handled, call, command_rx, svc, scan_task_handle, task, worker,
                   SPI_ACCESS_MUTEX, oneshot, stopped>>
    /\ UNCHANGED otherVars

\* continuous_scan_loop is first polled: on hardware it hands
\* run_hardware_scan_worker to a blocking thread and awaits it, on the mock
\* platform it runs run_mock_scan_loop itself.
TaskStart(i) ==
    /\ task[i] = "running"
    /\ At(i, "unborn")
    /\ Goto(i, IF platform = "hardware" THEN "lock" ELSE "mock_check")
    /\ UNCHANGED <<platform, handled, call, is_running, should_run, command_rx, svc,
                   scan_task_handle, task, SPI_ACCESS_MUTEX, detached, oneshot, stopped>>
    /\ UNCHANGED otherVars

\* continuous_scan_loop after its scan loop returned: both flags are cleared
\* and the task ends.
TaskEpilogue(i) ==
    /\ task[i] = "running"
    /\ At(i, "done")
    /\ task' = [task EXCEPT ![i] = "finished"]
    /\ should_run' = FALSE
    /\ is_running' = FALSE
    /\ UNCHANGED <<platform, handled, call, command_rx, svc, scan_task_handle, worker,
                   SPI_ACCESS_MUTEX, detached, oneshot, stopped>>
    /\ UNCHANGED otherVars

\* An aborted task is dropped at its await: it runs no further code, so not
\* its epilogue. The mock loop is the task itself and ends with it; the blocking
\* thread of the hardware worker is not cancelled.
TaskCancelled(i) ==
    /\ task[i] = "aborted"
    /\ task' = [task EXCEPT ![i] = "finished"]
    /\ worker' = IF platform = "mock" THEN [worker EXCEPT ![i] = [NoWorker EXCEPT !.pc = "done"]]
                 ELSE worker
    /\ UNCHANGED <<platform, handled, call, is_running, should_run, command_rx, svc,
                   scan_task_handle, SPI_ACCESS_MUTEX, detached, oneshot, stopped>>
    /\ UNCHANGED otherVars

continuous_scan_loop(i) == TaskStart(i) \/ TaskEpilogue(i) \/ TaskCancelled(i)

\* A lock that does not wait for the gate.
LockWithoutWaiting(holder) == TRUE

\* spi_mutex.blocking_lock(): returns once nobody holds the gate.
blocking_lock(holder) == holder = Unlocked

\* A guard that is never dropped.
Leaked(guard) == guard

\* drop(_guard): the gate is free again.
Released(guard) == Unlocked

\* A check that never ends a loop.
ContinuesAnyway == TRUE

\* should_continue_scanning: the should_run of the state.
should_continue_scanning == should_run

\* run_hardware_scan_worker returns: _spi_guard is dropped.
WorkerExit(i) ==
    /\ worker' = [worker EXCEPT ![i] = [NoWorker EXCEPT !.pc = "done"]]
    /\ SPI_ACCESS_MUTEX' = Released(SPI_ACCESS_MUTEX)

\* run_hardware_scan_worker takes the gate (rfid.rs:383-384).
WorkerLock(i) ==
    /\ At(i, "lock")
    /\ blocking_lock(SPI_ACCESS_MUTEX)
    /\ SPI_ACCESS_MUTEX' = i
    /\ Goto(i, "check")
    /\ UNCHANGED <<platform, handled, call, is_running, should_run, command_rx, svc,
                   scan_task_handle, task, detached, oneshot, stopped>>
    /\ UNCHANGED otherVars

\* The head of the outer loop: should_continue_scanning.
WorkerCheck(i) ==
    /\ At(i, "check")
    /\ IF should_continue_scanning
         THEN Goto(i, "init") /\ UNCHANGED SPI_ACCESS_MUTEX
         ELSE WorkerExit(i)
    /\ UNCHANGED <<platform, handled, call, is_running, should_run, command_rx, svc,
                   scan_task_handle, task, detached, oneshot, stopped>>
    /\ UNCHANGED otherVars

\* A failure that is only logged.
FailureOnlyLogged == UNCHANGED <<last_error, is_running, should_run>>

\* handle_scanner_init_failure: the error is recorded, both flags are cleared.
handle_scanner_init_failure ==
    /\ last_error' = Some(Err("Scanner initialization failed", ""))
    /\ is_running' = FALSE
    /\ should_run' = FALSE

\* initialize_persistent_scanner returns: Ok enters the scan loop, the third
\* Err in a row is handle_scanner_init_failure, an earlier one sleeps
\* init_attempts seconds (rfid.rs:424).
WorkerInit(i) ==
    /\ At(i, "init")
    /\ \E ok \in BOOLEAN :
         IF ok
           THEN /\ worker' = [worker EXCEPT ![i] = [NoWorker EXCEPT !.pc = "poll"]]
                /\ UNCHANGED <<is_running, should_run, last_error, SPI_ACCESS_MUTEX>>
           ELSE IF worker[i].init_attempts + 1 >= MAX_INIT_RETRIES
             THEN /\ handle_scanner_init_failure
                  /\ WorkerExit(i)
             ELSE /\ worker' = [worker EXCEPT
                                  ![i].pc = "backoff",
                                  ![i].init_attempts = @ + 1,
                                  ![i].backoffs = Append(@, worker[i].init_attempts + 1)]
                  /\ UNCHANGED <<is_running, should_run, last_error, SPI_ACCESS_MUTEX>>
    /\ UNCHANGED <<platform, handled, call, command_rx, svc, scan_task_handle, task, detached,
                   oneshot, stopped>>
    /\ UNCHANGED <<error_count, last_scan, readerFaults, restVars>>

\* The sleeps of the worker: the backoff after a failed init (to the loop
\* head), the 200 ms after a tag (to the scan loop head), the second before a
\* re-initialisation (to the loop head).
WorkerSleep(i) ==
    /\ \/ At(i, "backoff") /\ Goto(i, "check")
       \/ At(i, "debounce") /\ Goto(i, "poll")
       \/ At(i, "reinit") /\ Goto(i, "check")
    /\ UNCHANGED <<platform, handled, call, is_running, should_run, command_rx, svc,
                   scan_task_handle, task, SPI_ACCESS_MUTEX, detached, oneshot, stopped>>
    /\ UNCHANGED otherVars

\* The head of run_hardware_scan_loop_sync: a cleared should_run returns false
\* and the worker leaves.
WorkerPoll(i) ==
    /\ At(i, "poll")
    /\ IF should_continue_scanning
         THEN Goto(i, "scan") /\ UNCHANGED SPI_ACCESS_MUTEX
         ELSE WorkerExit(i)
    /\ UNCHANGED <<platform, handled, call, is_running, should_run, command_rx, svc,
                   scan_task_handle, task, detached, oneshot, stopped>>
    /\ UNCHANGED otherVars

\* The ways the reader may answer one poll of the worker: no card, a card that
\* is selected at once, a card whose select collides.
Readers ==
    {[card |-> FALSE, selects |-> <<>>]}
      \cup {[card |-> TRUE, selects |-> [k \in 1..(MAX_RETRIES + 1) |-> answer]] :
               answer \in {[ok |-> TRUE, uid |-> <<4, 171>>],
                           [ok |-> FALSE, error |-> "Collision"]}}

\* The reader answers with a real fault only while the environment has one
\* left to give.
Answered(result) ==
    IF result.ok \/ Benign(result)
      THEN UNCHANGED readerFaults
      ELSE readerFaults > 0 /\ readerFaults' = readerFaults - 1

\* One turn of run_hardware_scan_loop_sync: scan_with_persistent_scanner_sync
\* returns a tag, a benign error or a real one and its handler runs; the 15th
\* real error in a row returns true, and the worker re-initialises if it should
\* still run.
WorkerScan(i) ==
    /\ At(i, "scan")
    /\ \E r \in Readers :
         LET result == scan_with_persistent_scanner_sync(r)
         IN  /\ Answered(result)
             /\ IF result.ok
                  THEN /\ handle_successful_scan(result.value)
                       /\ worker' = [worker EXCEPT ![i].pc = "debounce",
                                                   ![i].consecutive_errors = 0]
                       /\ UNCHANGED SPI_ACCESS_MUTEX
                  ELSE /\ handle_scan_error(result)
                       /\ IF Benign(result)
                            THEN Goto(i, "poll") /\ UNCHANGED SPI_ACCESS_MUTEX
                            ELSE IF worker[i].consecutive_errors + 1 >= MAX_CONSECUTIVE_ERRORS
                              THEN IF should_continue_scanning
                                     THEN /\ worker' = [worker EXCEPT ![i] = [NoWorker EXCEPT !.pc = "reinit"]]
                                          /\ UNCHANGED SPI_ACCESS_MUTEX
                                     ELSE WorkerExit(i)
                              ELSE /\ worker' = [worker EXCEPT ![i].pc = "poll",
                                                               ![i].consecutive_errors = @ + 1]
                                   /\ UNCHANGED SPI_ACCESS_MUTEX
    /\ UNCHANGED <<platform, handled, call, is_running, should_run, command_rx, svc,
                   scan_task_handle, task, detached, oneshot, stopped>>
    /\ UNCHANGED restVars

run_hardware_scan_worker(i) ==
    \/ WorkerLock(i)
    \/ WorkerCheck(i)
    \/ WorkerInit(i)
    \/ WorkerSleep(i)
    \/ WorkerPoll(i)
    \/ WorkerScan(i)

\* run_mock_scan_loop: it takes no gate, and runs only while its task does.
MockCheck(i) ==
    /\ task[i] = "running"
    /\ At(i, "mock_check")
    /\ Goto(i, IF should_continue_scanning THEN "mock_scan" ELSE "done")
    /\ UNCHANGED <<platform, handled, call, is_running, should_run, command_rx, svc,
                   scan_task_handle, task, SPI_ACCESS_MUTEX, detached, oneshot, stopped>>
    /\ UNCHANGED otherVars

\* perform_platform_scan returns: a tag is followed by the 30 ms sleep.
MockScan(i) ==
    /\ task[i] = "running"
    /\ At(i, "mock_scan")
    /\ \E result \in {Ok(format_uid(<<4, 171>>)), Err("Scan timeout - no card detected", "")} :
         IF result.ok
           THEN handle_successful_scan(result.value) /\ Goto(i, "mock_sleep")
           ELSE handle_scan_error(result) /\ Goto(i, "mock_check")
    /\ UNCHANGED <<platform, handled, call, is_running, should_run, command_rx, svc,
                   scan_task_handle, task, SPI_ACCESS_MUTEX, detached, oneshot, stopped>>
    /\ UNCHANGED <<readerFaults, restVars>>

MockSleep(i) ==
    /\ task[i] = "running"
    /\ At(i, "mock_sleep")
    /\ Goto(i, "mock_check")
    /\ UNCHANGED <<platform, handled, call, is_running, should_run, command_rx, svc,
                   scan_task_handle, task, SPI_ACCESS_MUTEX, detached, oneshot, stopped>>
    /\ UNCHANGED otherVars

run_mock_scan_loop(i) == MockCheck(i) \/ MockScan(i) \/ MockSleep(i)

\* A scan_rfid_single call: where it stands, whether the service reported
\* scanning when the call was made, and what the last call returned:
\* Ok(RfidScanResult) with success true ("success") or false ("failure"), or
\* Err(String) ("Err").
Returned(result) == [pc |-> "idle", active |-> FALSE, result |-> result]
NoOneShot == Returned("none")

\* A frontend that awaits each command: where its call stands (cmd and pc), what
\* the last call returned (result: "Ok" or "Err"), and whether a stop_rfid_service
\* call is the one that followed a start_rfid_service that returned Ok (after).
NoCall == [cmd |-> "none", pc |-> "idle", result |-> "none", after |-> FALSE]
Calling(cmd, at) == [cmd |-> cmd, pc |-> at, result |-> "none", after |-> FALSE]
Return(result) == [call EXCEPT !.pc = "idle", !.result = result]
\* No command is under way: the frontend makes its next call and drops the
\* result of the last one.
Quiet == call.pc = "idle" /\ oneshot.pc = "idle"

\* scan_rfid_single: stop_service_for_exclusive_hardware_access sends Stop.
OneShotStop ==
    /\ Quiet
    /\ send_service_command("Stop")
    /\ oneshot' = [pc |-> "wait", active |-> is_running, result |-> "none"]
    /\ call' = NoCall
    /\ UNCHANGED <<platform, handled, is_running, should_run, svc, scan_task_handle, task,
                   worker, SPI_ACCESS_MUTEX, detached, stopped>>
    /\ UNCHANGED otherVars

\* A wait whose timeout fails the call.
WaitedOrFailed ==
    /\ oneshot.pc = "wait"
    /\ oneshot' = IF is_running THEN Returned("Err") ELSE [oneshot EXCEPT !.pc = "lock"]
    /\ UNCHANGED <<platform, handled, call, is_running, should_run, command_rx, svc,
                   scan_task_handle, task, worker, SPI_ACCESS_MUTEX, detached, stopped>>
    /\ UNCHANGED otherVars

\* wait_for_service_running(false, 3 s) returns: is_running was seen false, or
\* the wait timed out, which is only logged.
OneShotWaited ==
    /\ oneshot.pc = "wait"
    /\ oneshot' = [oneshot EXCEPT !.pc = "lock"]
    /\ UNCHANGED <<platform, handled, call, is_running, should_run, command_rx, svc,
                   scan_task_handle, task, worker, SPI_ACCESS_MUTEX, detached, stopped>>
    /\ UNCHANGED otherVars

\* timeout(3 s, mutex.lock()): the gate is taken, or the call returns
\* Err("Timed out waiting for exclusive scanner access").
OneShotLock ==
    /\ oneshot.pc = "lock"
    /\ IF SPI_ACCESS_MUTEX = Unlocked
         THEN SPI_ACCESS_MUTEX' = OneShotGuard /\ oneshot' = [oneshot EXCEPT !.pc = "scan"]
         ELSE SPI_ACCESS_MUTEX' = SPI_ACCESS_MUTEX /\ oneshot' = Returned("Err")
    /\ UNCHANGED <<platform, handled, call, is_running, should_run, command_rx, svc,
                   scan_task_handle, task, worker, detached, stopped>>
    /\ UNCHANGED otherVars

\* scan_rfid_hardware_single (of raspberry_pi or of mock_platform) returns a
\* tag or an error, the call returns the RfidScanResult made of it and _guard
\* is dropped.
OneShotScanned ==
    /\ oneshot.pc = "scan"
    /\ SPI_ACCESS_MUTEX' = Released(SPI_ACCESS_MUTEX)
    /\ \E result \in {"success", "failure"} : oneshot' = Returned(result)
    /\ UNCHANGED <<platform, handled, call, is_running, should_run, command_rx, svc,
                   scan_task_handle, task, worker, detached, stopped>>
    /\ UNCHANGED otherVars

OneShotStep == OneShotWaited \/ OneShotLock \/ OneShotScanned

scan_rfid_single == OneShotStop \/ OneShotStep


\* A deadline that never passes.
NeverExpires(late) == FALSE

\* wait_for_service_running: Instant::now() >= deadline (rfid.rs:996), where
\* `late` tells whether the deadline can have passed.
Expired(late) == late

\* The poll of wait_for_service_running looking at is_running alone.
RunningOnly(expected_running, r, s) == IF expected_running THEN r ELSE ~r

\* wait_for_service_running: the target of its poll (rfid.rs:986-990).
reached_target(expected_running, r, s) == IF expected_running THEN r /\ s ELSE ~r

\* start_rfid_service sends Start and begins to poll.
StartCall ==
    /\ Quiet
    /\ Cardinality(Spawned) + StartsIn(command_rx) < MaxTasks
    /\ send_service_command("Start")
    /\ call' = Calling("start", "wait")
    /\ oneshot' = NoOneShot
    /\ stopped' = FALSE
    /\ UNCHANGED <<platform, handled, is_running, should_run, svc, scan_task_handle, task,
                   worker, SPI_ACCESS_MUTEX, detached>>
    /\ UNCHANGED otherVars

\* wait_for_service_running(true, 2 s) returns: Ok when a poll saw the target,
\* Err when the poll at the deadline did not. The deadline does not pass while
\* the command loop has a command to receive: it may be busy with a Stop for
\* longer, it does not leave the channel alone for seconds.
StartReturn ==
    /\ call.cmd = "start" /\ call.pc = "wait"
    /\ IF reached_target(TRUE, is_running, should_run)
         THEN call' = Return("Ok")
         ELSE Expired(~(svc = "recv" /\ command_rx # <<>>)) /\ call' = Return("Err")
    /\ UNCHANGED <<platform, handled, is_running, should_run, command_rx, svc,
                   scan_task_handle, task, worker, SPI_ACCESS_MUTEX, detached,
                   oneshot, stopped>>
    /\ UNCHANGED otherVars

\* stop_rfid_service sends Stop and begins to poll.
StopCall ==
    /\ Quiet
    /\ send_service_command("Stop")
    /\ call' = [Calling("stop", "wait") EXCEPT
                  !.after = call.cmd = "start" /\ call.result = "Ok"]
    /\ oneshot' = NoOneShot
    /\ UNCHANGED <<platform, handled, is_running, should_run, svc, scan_task_handle, task,
                   worker, SPI_ACCESS_MUTEX, detached, stopped>>
    /\ UNCHANGED otherVars

\* wait_for_service_running(false, 4 s) returns: Ok when a poll saw is_running
\* false, Err when the poll at the deadline did not. The 4 s outlast the
\* handling of the Stop (STOP_JOIN_TIMEOUT and ten polls of 50 ms), so the
\* deadline passes only once the loop has handled what was sent.
StopReturn ==
    /\ call.cmd = "stop" /\ call.pc = "wait"
    /\ IF reached_target(FALSE, is_running, should_run)
         THEN call' = Return("Ok")
         ELSE Expired(svc = "recv" /\ command_rx = <<>>) /\ call' = Return("Err")
    /\ UNCHANGED <<platform, handled, is_running, should_run, command_rx, svc,
                   scan_task_handle, task, worker, SPI_ACCESS_MUTEX, detached,
                   oneshot, stopped>>
    /\ UNCHANGED otherVars

\* get_rfid_scanner_status: a running service answers from its state; else the
\* mock build answers at once and the hardware build goes for the gate.
StatusCall ==
    /\ Quiet
    /\ call' = IF is_running \/ platform = "mock"
                 THEN [Calling("status", "idle") EXCEPT !.result = "Ok"]
                 ELSE Calling("status", "probe_lock")
    /\ oneshot' = NoOneShot
    /\ UNCHANGED <<platform, handled, is_running, should_run, command_rx, svc,
                   scan_task_handle, task, worker, SPI_ACCESS_MUTEX, detached,
                   stopped>>
    /\ UNCHANGED otherVars

\* timeout(3 s, spi_mutex.lock()) of the probe (rfid.rs:1128-1130).
ProbeLock ==
    /\ call.pc = "probe_lock"
    /\ IF SPI_ACCESS_MUTEX = Unlocked
         THEN SPI_ACCESS_MUTEX' = CommandGuard /\ call' = [call EXCEPT !.pc = "probe"]
         ELSE SPI_ACCESS_MUTEX' = SPI_ACCESS_MUTEX /\ call' = Return("Err")
    /\ UNCHANGED <<platform, handled, is_running, should_run, command_rx, svc,
                   scan_task_handle, task, worker, detached, oneshot, stopped>>
    /\ UNCHANGED otherVars

\* check_rfid_hardware returns and _guard is dropped.
ProbeDone ==
    /\ call.pc = "probe"
    /\ SPI_ACCESS_MUTEX' = Released(SPI_ACCESS_MUTEX)
    /\ call' = Return("Ok")
    /\ UNCHANGED <<platform, handled, is_running, should_run, command_rx, svc,
                   scan_task_handle, task, worker, detached, oneshot, stopped>>
    /\ UNCHANGED otherVars

get_rfid_scanner_status == StatusCall \/ ProbeLock \/ ProbeDone

\* recover_rfid_scanner sends Stop; the hardware build then runs
\* recover_rfid_hardware, the GPIO reset of the reader (rfid.rs:1056-1059).
RecoverCall ==
    /\ Quiet
    /\ send_service_command("Stop")
    /\ call' = Calling("recover", IF platform = "hardware" THEN "reset" ELSE "recover_wait")
    /\ oneshot' = NoOneShot
    /\ UNCHANGED <<platform, handled, is_running, should_run, svc, scan_task_handle, task,
                   worker, SPI_ACCESS_MUTEX, detached, stopped>>
    /\ UNCHANGED otherVars

\* recover_rfid_hardware returns: Ok goes on, Err is returned.
RecoverReset ==
    /\ call.pc = "reset"
    /\ \E ok \in BOOLEAN :
         call' = IF ok THEN [call EXCEPT !.pc = "recover_wait"] ELSE Return("Err")
    /\ UNCHANGED <<platform, handled, is_running, should_run, command_rx, svc,
                   scan_task_handle, task, worker, SPI_ACCESS_MUTEX, detached,
                   oneshot, stopped>>
    /\ UNCHANGED otherVars

\* wait_for_service_running(false, 4 s) returns; its Err is only logged.
RecoverWaited ==
    /\ call.pc = "recover_wait"
    /\ call' = [call EXCEPT !.pc = "recover_lock"]
    /\ UNCHANGED <<platform, handled, is_running, should_run, command_rx, svc,
                   scan_task_handle, task, worker, SPI_ACCESS_MUTEX, detached,
                   oneshot, stopped>>
    /\ UNCHANGED otherVars

\* The end of recover_rfid_scanner: the flags are reset, Ok is returned and
\* _guard is dropped.
RecoverEnd ==
    /\ error_count' = 0
    /\ last_error' = NoneOpt
    /\ is_running' = FALSE
    /\ should_run' = FALSE
    /\ SPI_ACCESS_MUTEX' = Released(CommandGuard)
    /\ call' = Return("Ok")

\* timeout(3 s, spi_mutex.lock()) of the recovery (rfid.rs:1067-1073); the mock
\* build has nothing to verify.
RecoverLock ==
    /\ call.pc = "recover_lock"
    /\ IF SPI_ACCESS_MUTEX # Unlocked
         THEN /\ call' = Return("Err")
              /\ UNCHANGED <<is_running, should_run, SPI_ACCESS_MUTEX, error_count, last_error>>
         ELSE IF platform = "hardware"
           THEN /\ SPI_ACCESS_MUTEX' = CommandGuard
                /\ call' = [call EXCEPT !.pc = "verify"]
                /\ UNCHANGED <<is_running, should_run, error_count, last_error>>
           ELSE RecoverEnd
    /\ UNCHANGED <<platform, handled, command_rx, svc, scan_task_handle, task, worker,
                   detached, oneshot, stopped>>
    /\ UNCHANGED <<last_scan, readerFaults, restVars>>

\* check_rfid_hardware returns: a reader that does not answer is an Err.
RecoverVerify ==
    /\ call.pc = "verify"
    /\ \E is_available \in BOOLEAN :
         IF is_available
           THEN RecoverEnd
           ELSE /\ SPI_ACCESS_MUTEX' = Released(SPI_ACCESS_MUTEX)
                /\ call' = Return("Err")
                /\ UNCHANGED <<is_running, should_run, error_count, last_error>>
    /\ UNCHANGED <<platform, handled, command_rx, svc, scan_task_handle, task, worker,
                   detached, oneshot, stopped>>
    /\ UNCHANGED <<last_scan, readerFaults, restVars>>

recover_rfid_scanner ==
    RecoverCall \/ RecoverReset \/ RecoverWaited \/ RecoverLock \/ RecoverVerify
(***************************************************************************)
(* Initial states and specifications                                       *)
(***************************************************************************)

\* The cache directory is empty, nobody is logged in, NETWORK_AVAILABLE starts
\* true (api.rs:12) and PROCESSING false (api.rs:209). The clock starts
\* somewhere within a millisecond; `faults` file operations have failed.
CacheInit(epochs, faults) ==
    /\ files = <<>>
    /\ clock = 0
    /\ epoch \in epochs
    /\ NETWORK_AVAILABLE = TRUE
    /\ PROCESSING = FALSE
    /\ AUTH_INFO = FALSE
    /\ stable = FALSE
    /\ pc = [d \in Drainers |-> "idle"]
    /\ cached_scans = [d \in Drainers |-> <<>>]
    /\ scan = [d \in Drainers |-> NoScan]
    /\ delivered = {}
    /\ ioFaults = faults
    /\ ret = [failure |-> "none", result |-> "none"]

\* RfidBackgroundService::new and start_background_task: not running, the
\* command loop waiting on an empty channel, no scan task.
ServiceIdle(platforms) ==
    /\ platform \in platforms
    /\ is_running = FALSE
    /\ should_run = FALSE
    /\ command_rx = <<>>
    /\ svc = "recv"
    /\ scan_task_handle = NoHandle
    /\ task = [i \in TaskIds |-> "unborn"]
    /\ worker = [i \in TaskIds |-> NoWorker]
    /\ SPI_ACCESS_MUTEX = Unlocked
    /\ detached = {}
    /\ oneshot = NoOneShot
    /\ call = NoCall
    /\ stopped = FALSE
    /\ handled = [command |-> "none", reaped |-> FALSE, did |-> "none"]

\* A service that has not polled: no error counted, none recorded, no tag seen;
\* its reader will answer with `faults` real faults.
NoPoll(faults) ==
    /\ reader = [card |-> FALSE, selects |-> <<>>]
    /\ error_count = 0
    /\ last_error = NoneOpt
    /\ scanned = NoneOpt
    /\ last_scan = NoneOpt
    /\ readerFaults = faults

RfidInit(platforms) == ServiceIdle(platforms) /\ NoPoll(MaxReaderFaults)

Epochs == 0..(TicksPerMs - 1)

Init == CacheInit(Epochs, 0) /\ RfidInit({"hardware"})

CacheNext ==
    \/ send_tag_to_server
    \/ process_cached_scans
    \/ start_cache_processor
    \/ set_auth_info
    \/ clear_auth_info

\* Submission, the drain and the login state, in any interleaving, with file
\* operations that may fail.
CacheSpec == Init /\ [][CacheNext]_vars

\* The steps of one caller's pass.
DrainStep(d) == DrainPrepare(d) \/ DrainNext(d) \/ DrainDone(d) \/ DrainAnswer(d)

DrainFairNext ==
    \/ send_tag_to_server
    \/ process_cached_scans
    \/ start_cache_processor
    \/ set_auth_info
    \/ Stabilizes

\* The same with a staff member who stays logged in, an environment that may
\* stabilise and a file system that does not fail. The timer task and the spawned tasks are scheduled by the runtime
\* and every request ends (its timeout is 10 s), so each of their steps is
\* taken if it stays possible.
DrainFairInit == CacheInit(Epochs, MaxFaults) /\ RfidInit({"hardware"})

DrainFairSpec ==
    /\ DrainFairInit
    /\ [][DrainFairNext]_vars
    /\ WF_vars(TimerFire)
    /\ WF_vars(TimerPost)
    /\ WF_vars(DrainEnter)
    /\ \A d \in Drainers : WF_vars(DrainStep(d))


\* The scan service on either build, with any sequence of Start, Stop and
\* one-shot commands from the frontend.
ServiceInit == CacheInit({0}, 0) /\ RfidInit({"hardware", "mock"})

RfidNext ==
    \/ start_rfid_service
    \/ stop_rfid_service
    \/ scan_rfid_single
    \/ background_scanning_loop
    \/ \E i \in TaskIds :
         \/ continuous_scan_loop(i)
         \/ run_hardware_scan_worker(i)
         \/ run_mock_scan_loop(i)
         \/ DetachedJoin(i)

RfidSpec == ServiceInit /\ [][RfidNext]_vars

\* The same where the runtime schedules every task and thread and every
\* hardware call and every sleep returns: the command loop, the scan tasks, the
\* workers, the detached join tasks and a one-shot call under way each take
\* their next step if it stays possible. The frontend need not send anything.
RfidFairSpec ==
    /\ ServiceInit
    /\ [][RfidNext]_vars
    /\ WF_vars(background_scanning_loop)
    /\ WF_vars(OneShotStep)
    /\ \A i \in TaskIds :
         /\ WF_vars(continuous_scan_loop(i))
         /\ WF_vars(run_hardware_scan_worker(i))
         /\ WF_vars(run_mock_scan_loop(i))
         /\ WF_vars(DetachedJoin(i))

\* The scan service on either build with a frontend that awaits each of its
\* commands before it makes the next.
CommandNext ==
    \/ StartCall \/ StartReturn
    \/ StopCall \/ StopReturn
    \/ scan_rfid_single
    \/ get_rfid_scanner_status
    \/ recover_rfid_scanner
    \/ background_scanning_loop
    \/ \E i \in TaskIds :
         \/ continuous_scan_loop(i)
         \/ run_hardware_scan_worker(i)
         \/ run_mock_scan_loop(i)
         \/ DetachedJoin(i)

CommandSpec == ServiceInit /\ [][CommandNext]_vars

\* The same where the command loop and the poll of a stop_rfid_service call
\* are scheduled, and nothing else need be: no task, no worker and no join has
\* to take a step.
CommandFairSpec ==
    /\ ServiceInit
    /\ [][CommandNext]_vars
    /\ WF_vars(background_scanning_loop)
    /\ WF_vars(StopReturn)

\* One poll of a reader that answers in any way, by a service with any error
\* state.
Answers == [1..(MAX_RETRIES + 1) -> SelectOutcomes]

PollInit ==
    /\ CacheInit({0}, 0)
    /\ ServiceIdle({"hardware"})
    /\ reader \in [card : BOOLEAN, selects : Answers]
    /\ error_count \in 0..MaxErrorCount
    /\ last_error \in {NoneOpt, Some(Err("Select failed", "Collision"))}
    /\ scanned = NoneOpt
    /\ last_scan \in {NoneOpt, Some(format_uid(<<255, 0, 9>>))}
    /\ readerFaults = 0

PollSpec == PollInit /\ [][PollOnce]_vars

\* The scan service of the hardware build with a reader that may answer with
\* real faults often enough for the worker to give a scanner up, and a
\* frontend that sends Start and Stop at any time.
ScanLoopInit ==
    /\ CacheInit({0}, 0)
    /\ ServiceIdle({"hardware"})
    /\ NoPoll(MAX_CONSECUTIVE_ERRORS + 1)

ScanLoopNext ==
    \/ start_rfid_service
    \/ stop_rfid_service
    \/ background_scanning_loop
    \/ \E i \in TaskIds :
         \/ continuous_scan_loop(i)
         \/ run_hardware_scan_worker(i)
         \/ DetachedJoin(i)

ScanLoopSpec == ScanLoopInit /\ [][ScanLoopNext]_vars
(***************************************************************************)
(* Properties of the cache and of the drain                                *)
(***************************************************************************)

\* The records the cache holds, and the one created at reading t.
Pending(f) == {from_str(f[k]) : k \in {x \in DOMAIN f : parses(f[x])}}
InCache(t) == \E r \in Pending(files) : r.created_at = t

\* What list() can answer, over the orders the directory may be read in.
Listings(f) == {get_cached_scans(f, o, "none").scans : o \in DirOrders(f)}

\* The drainers inside a pass, and the record a request is in flight for.
InPass == {d \in Drainers : pc[d] \in {"prepare", "loop", "send"}}
InFlight(r) == \E d \in Drainers : pc[d] = "send" /\ scan[d].created_at = r.created_at

\* The record send_tag_to_server builds for a tag at the reading `now`.
Submitted(tag_id, now) ==
    [tag_id |-> tag_id, terminal_id |-> DeviceId, timestamp |-> now,
     room_id |-> RoomId, activity_id |-> NoneOpt, staff_id |-> get_user_id,
     attempts |-> 0, created_at |-> now]

\* C4: a live submission that fails because the network is unreachable, no
\* credential is available, the server answers 401 or the request fails in
\* transport returns either the soft error, with the scan's PendingScan
\* (attempts 0) in the cache, or a cache I/O error; never anything else.
C4_FailureIsCachedOrReported ==
    /\ [](ret.failure = "netauth" => ret.result \in {"SoftErr", "CacheIoErr"})
    /\ [][clock' # clock =>
            /\ ret'.failure = "netauth"
            /\ ret'.result = "CacheIoErr" => ioFaults' > ioFaults
            /\ ret'.result = "SoftErr" =>
                 \E tag_id \in Tags :
                    /\ \E cause \in CachingCauses, probe \in BOOLEAN :
                          SubmitCached(tag_id, cause, probe)
                    /\ Submitted(tag_id, clock') \in Pending(files')]_vars

\* C4 witness: a submission failed for the network or the credential, returned
\* the soft error, and its record is in the cache.
C4_Witness ==
    /\ ret = [failure |-> "netauth", result |-> "SoftErr"]
    /\ \E r \in Pending(files) : r.created_at = clock /\ r.attempts = 0

\* C6: of two triggers of the drain that overlap, one runs a pass; the other
\* returns without reading, changing or sending a record.
C6_SingleFlight ==
    /\ [](Cardinality(InPass) <= 1)
    /\ [][\A d \in Drainers :
            (/\ PROCESSING
             /\ pc[d] = (IF d = "timer" THEN "idle" ELSE "enter")
             /\ pc'[d] # pc[d])
            => /\ pc'[d] \in {"idle", "post"}
               /\ files' = files
               /\ cached_scans' = cached_scans
               /\ scan' = scan
               /\ delivered' = delivered]_vars

\* C6 witness: the post-submission trigger is pending while the timer's pass has a
\* request in flight.
C6_Witness == pc["timer"] = "send" /\ pc["spawned"] = "enter" /\ PROCESSING

\* C7: the attempts a record is persisted with never decrease and never exceed
\* the cap.
C7_AttemptsMonotoneCapped ==
    /\ [](\A r \in Pending(files) : r.attempts <= MaxAttempts)
    /\ [][\A r \in Pending(files), q \in Pending(files') :
            (q.tag_id = r.tag_id /\ q.created_at = r.created_at)
            => q.attempts >= r.attempts]_vars

\* C7 witness: a record persisted with the cap's attempts.
C7_Witness == \E r \in Pending(files) : r.attempts = MaxAttempts

\* C8: a record enqueued into an empty cache is listed alone, attempts 0 and the
\* other fields as submitted; a drain that counts an attempt for the only record
\* lists it with one more, and a failed send leaves the cache as it is.
C8_EnqueueListDrain ==
    [][/\ \A tag_id \in Tags, cause \in CachingCauses, probe \in BOOLEAN :
            (files = <<>> /\ SubmitCached(tag_id, cause, probe) /\ ret'.result = "SoftErr")
            => Listings(files') = {<<Submitted(tag_id, clock')>>}
       /\ \A d \in Drainers :
            (/\ pc[d] = "loop" /\ pc'[d] = "send"
             /\ ioFaults' = ioFaults
             /\ Listings(files) = {<<Head(cached_scans[d])>>})
            => Listings(files') =
                 {<<[Head(cached_scans[d]) EXCEPT
                        !.attempts = Head(cached_scans[d]).attempts + 1]>>}
       /\ \A d \in Drainers :
            (/\ pc[d] = "send" /\ pc'[d] # "send"
             /\ delivered' = delivered
             /\ ioFaults' = 0)
            => files' = files]_vars

\* C8 witness: the only record of the cache, enqueued into the empty cache, after
\* one drain whose send failed.
C8_Witness ==
    /\ ioFaults = 0
    /\ delivered = {}
    /\ InPass = {}
    /\ \E r \in Pending(files) :
        /\ r.attempts = 1
        /\ r.created_at = clock
        /\ Listings(files) = {<<r>>}

\* C9: a record persisted at the cap with no request in flight is not sent and
\* not deleted by a drain: every step of a drain leaves its file as it is and
\* starts no request for it.
C9_CappedIsSkipped ==
    [][\A k \in DOMAIN files :
         (/\ parses(files[k])
          /\ from_str(files[k]).attempts >= MaxAttempts
          /\ ~InFlight(from_str(files[k]))
          /\ clock' = clock)
         => /\ k \in DOMAIN files'
            /\ files'[k] = files[k]
            /\ \A d \in Drainers :
                 pc'[d] = "send" =>
                    scan'[d].created_at # from_str(files[k]).created_at]_vars

\* C9 witness: a pass has gone past a record at the cap and has a request in
\* flight for a younger one.
C9_Witness ==
    \E r \in Pending(files), d \in Drainers :
        /\ r.attempts = MaxAttempts
        /\ pc[d] = "send"
        /\ scan[d].created_at > r.created_at

\* Oldest first.
Sorted(s) == \A i, j \in 1..Len(s) : i < j => s[i].created_at <= s[j].created_at
Order(s) == [i \in 1..Len(s) |-> s[i].created_at]

\* C10: list() answers in non-decreasing order of created_at, and rewriting a
\* record with its attempts counted leaves every record where it was.
C10_ListedOldestFirst ==
    /\ [](\A l \in Listings(files) : Sorted(l))
    /\ [][\A d \in Drainers :
            (/\ pc[d] = "loop" /\ pc'[d] = "send"
             /\ ioFaults' = ioFaults
             /\ \E r \in Pending(files) :
                    r.created_at = Head(cached_scans[d]).created_at)
            => {Order(l) : l \in Listings(files')} = {Order(l) : l \in Listings(files)}]_vars

\* C10 witness: two records, the older one rewritten by a drain, in a directory
\* that may yield the younger one first.
C10_Witness ==
    \E r, q \in Pending(files) :
        /\ r.created_at < q.created_at
        /\ r.attempts > 0
        /\ \E o \in DirOrders(files) : ReadAll(files, o) = <<q, r>>

\* C5 as stated: once the network and the credential stay available, every scan
\* that is in the cache is eventually delivered and removed, whatever happened
\* to it before.
C5_EveryCachedScanDelivered ==
    \A t \in 1..MaxClock :
        (stable /\ InCache(t)) ~> (t \in delivered /\ ~InCache(t))

\* No pass holds a record that shares the file of the record created at t.
Alone(t) ==
    \A r \in Pending(files) :
        r.created_at = t =>
            \A d \in Drainers :
                /\ \A i \in 1..Len(cached_scans[d]) :
                      file_name(cached_scans[d][i]) = file_name(r)
                      => cached_scans[d][i].created_at = t
                /\ pc[d] = "send" /\ file_name(scan[d]) = file_name(r)
                      => scan[d].created_at = t

\* What does hold: once the network and the credential stay available, a scan
\* that is in the cache with fewer attempts than the cap, in a file no other
\* record is about to be written to, is eventually delivered and removed.
C5_BelowCapDelivered ==
    \A t \in 1..MaxClock :
        (/\ stable
         /\ \E r \in Pending(files) : r.created_at = t /\ r.attempts < MaxAttempts
         /\ Alone(t))
        ~> (t \in delivered /\ ~InCache(t))

(***************************************************************************)
(* Properties of the scan service                                          *)
(***************************************************************************)

\* Worker i holds the reader: from taking the gate until it returns it is
\* initialising the scanner, polling it, or sleeping between the two. The mock
\* loop polls the simulated reader while its task has not been aborted.
InSession(i) ==
    \/ worker[i].pc \in {"check", "init", "backoff", "poll", "scan", "debounce", "reinit"}
    \/ task[i] = "running" /\ worker[i].pc \in {"mock_check", "mock_scan", "mock_sleep"}

\* Worker i is inside a call to the reader.
OnReader(i) ==
    \/ worker[i].pc \in {"init", "scan"}
    \/ task[i] = "running" /\ worker[i].pc = "mock_scan"

\* C1: whatever Starts and Stops are sent, Stops that time out and abort the
\* task included, at most one continuous-scan worker is initialising or
\* polling the reader at any instant.
C1_OneWorkerOnReader == Cardinality({i \in TaskIds : InSession(i)}) <= 1

\* A Stop timed out and aborted task 1, whose worker thread is still polling
\* under the gate, and the worker of a later Start waits for the gate.
C1_Witness ==
    /\ task[1] = "finished"
    /\ worker[1].pc = "scan"
    /\ worker[2].pc = "lock"
    /\ SPI_ACCESS_MUTEX = 1

\* C2: a one-shot scan requested while the service reported scanning never
\* runs its scan while a continuous worker is inside a call to the reader:
\* the two session windows do not overlap.
C2_OneShotExcludesWorker ==
    oneshot.pc = "scan" /\ oneshot.active => \A i \in TaskIds : ~OnReader(i)

\* The same on the build for the physical reader.
C2_HardwareBuild ==
    platform = "hardware" /\ oneshot.pc = "scan" => \A i \in TaskIds : ~InSession(i)

\* C3: once a Stop has been handled and no Start was sent after it, is_running
\* becomes false (or a Start is sent); and while it is still true a detached
\* join task is left to clear it.
C3_StopClearsRunning ==
    /\ [](stopped => <>(~is_running \/ ~stopped))
    /\ [](stopped /\ is_running => detached # {})

\* A Stop timed out, its task was handed to a detached join task, and
\* is_running is still true.
C3_Witness ==
    /\ stopped
    /\ is_running
    /\ svc = "recv"
    /\ scan_task_handle = NoHandle
    /\ detached # {}

(***************************************************************************)
(* Properties of the drain's persistence                                   *)
(***************************************************************************)

\* The record of a pass as the cache holds it, if it does.
Persisted(s) == {r \in Pending(files) : r.tag_id = s.tag_id /\ r.created_at = s.created_at}
PersistedAfter(s) ==
    {r \in Pending(files') : r.tag_id = s.tag_id /\ r.created_at = s.created_at}

\* C11: a drain starts the request for a record only once the cache holds the
\* record with the incremented attempts, so the sends started for a record never
\* outnumber its persisted attempts.
C11_SendAfterPersist ==
    [][\A d \in Drainers :
         (pc[d] = "loop" /\ pc'[d] = "send")
         => \E r \in PersistedAfter(scan'[d]) : r.attempts >= scan'[d].attempts]_vars

\* C12: when a file operation on a record fails, the record is still in the
\* cache afterwards or the caller is handed a cache I/O error: the enqueue of
\* send_tag_to_server returns it, the drain's update has no caller to hand it to.
C12_NoSilentLoss ==
    [][ioFaults' > ioFaults =>
         /\ clock' # clock =>
              \/ ret'.result = "CacheIoErr"
              \/ \E r \in Pending(files') : r.created_at = clock'
         /\ \A d \in Drainers :
              (pc[d] = "loop" /\ pc'[d] = "send") => PersistedAfter(scan'[d]) # {}]_vars

(***************************************************************************)
(* Properties of the service commands                                      *)
(***************************************************************************)

\* The command loop takes command c off the channel in this step.
Handles(c) ==
    /\ svc = "recv"
    /\ command_rx # <<>>
    /\ Head(command_rx) = c
    /\ command_rx' = Tail(command_rx)

StartReturns == call.cmd = "start" /\ call.pc = "wait" /\ call'.pc = "idle"

\* C14: start_rfid_service returns Ok only when its poll saw is_running and
\* should_run both true, and Err (the timeout) otherwise; so a Start that was
\* deferred behind a Stop still settling gives no Ok.
C14_StartOkOnlyObserved ==
    [][StartReturns =>
         /\ call'.result = "Ok" <=> (is_running /\ should_run)
         /\ call'.result = "Err" <=> ~(is_running /\ should_run)]_vars

\* The Start of the call was deferred (is_running, no should_run, nothing left
\* to handle) and the call has returned its timeout.
C14_Witness ==
    /\ call.cmd = "start" /\ call.pc = "idle" /\ call.result = "Err"
    /\ is_running /\ ~should_run
    /\ command_rx = <<>> /\ svc = "recv"
    /\ detached # {}

\* C15: a stop_rfid_service called right after a start_rfid_service that returned
\* Ok returns Ok, and from then on, until the frontend calls again, is_running
\* reads false.
C15_StopAfterStart ==
    (call.cmd = "stop" /\ call.after /\ call.pc = "idle")
    => (call.result = "Ok" /\ ~is_running)

\* The stop_rfid_service call returns in this step.
StopReturns == call.cmd = "stop" /\ call.pc = "wait" /\ call'.pc = "idle"

\* C16: stop_rfid_service always returns, whether or not the worker ever
\* exits: with Ok when its poll saw is_running false, with the timeout Err
\* otherwise; its 4 s exceed the 3 s of the join and the 10 polls of 50 ms.
C16_StopAlwaysReturns ==
    /\ (call.cmd = "stop" /\ call.pc = "wait") ~> (call.cmd = "stop" /\ call.pc = "idle")
    /\ [][StopReturns =>
            /\ call'.result = "Ok" <=> ~is_running
            /\ call'.result = "Err" <=> is_running]_vars
    /\ StopWaitMs > STOP_JOIN_TIMEOUT + SettlePolls * SettlePollMs

\* The stop returned its timeout while the worker of the aborted task was still
\* in a hardware call and the task itself not yet dropped.
C16_Witness ==
    /\ call.cmd = "stop" /\ call.pc = "idle" /\ call.result = "Err"
    /\ is_running
    /\ \E i \in detached : task[i] = "aborted" /\ worker[i].pc = "scan"

(* Properties of the hardware gate *)
\* Who may be holding the gate: a worker thread from its lock to its return,
\* a one-shot call during its scan, a status or recovery call during its probe.
Holds(guard) ==
    \/ guard \in TaskIds /\ InSession(guard) /\ platform = "hardware"
    \/ guard = OneShotGuard /\ oneshot.pc = "scan"
    \/ guard = CommandGuard /\ call.pc \in {"probe", "verify"}

\* A timeout(3 s, lock()) gives up in this step.
LockTimesOut ==
    \/ oneshot.pc = "lock" /\ oneshot'.pc = "idle"
    \/ call.pc \in {"probe_lock", "recover_lock"} /\ call'.pc = "idle" /\ call'.result = "Err"

\* C17: the gate is held only by a holder that is still at work, so it is free
\* whenever no worker thread is alive and no one-shot scan, probe or recovery is
\* under way; and a lock that times out returns an Err without having held it.
C17_GateReleased ==
    /\ [](SPI_ACCESS_MUTEX # Unlocked => Holds(SPI_ACCESS_MUTEX))
    /\ [][LockTimesOut =>
            /\ SPI_ACCESS_MUTEX' = SPI_ACCESS_MUTEX
            /\ SPI_ACCESS_MUTEX \notin {Unlocked, OneShotGuard, CommandGuard}
            /\ oneshot.pc = "lock" => oneshot'.result = "Err"]_vars

\* The one-shot call gave up on a gate that the worker of an aborted task still
\* holds; the worker of the task has since returned in no state of this kind.
C17_Witness ==
    /\ oneshot.pc = "idle" /\ oneshot.result = "Err"
    /\ SPI_ACCESS_MUTEX \in TaskIds
    /\ task[SPI_ACCESS_MUTEX] = "finished"
    /\ worker[SPI_ACCESS_MUTEX].pc = "scan"

\* C18: on the hardware build whoever is inside a call to the reader holds the
\* gate: a worker initialising or polling, a one-shot scan, a status probe, and
\* the reset and the probe of a recovery.
C18_ReaderOnlyUnderGate ==
    platform = "hardware" =>
      /\ \A i \in TaskIds : OnReader(i) => SPI_ACCESS_MUTEX = i
      /\ oneshot.pc = "scan" => SPI_ACCESS_MUTEX = OneShotGuard
      /\ call.pc \in {"probe", "verify", "reset"} => SPI_ACCESS_MUTEX = CommandGuard

\* What does hold: all of them but the reset of a recovery.
C18_AllButReset ==
    platform = "hardware" =>
      /\ \A i \in TaskIds : OnReader(i) => SPI_ACCESS_MUTEX = i
      /\ oneshot.pc = "scan" => SPI_ACCESS_MUTEX = OneShotGuard
      /\ call.pc \in {"probe", "verify"} => SPI_ACCESS_MUTEX = CommandGuard

(* Properties of the one-shot scan *)
\* C19: whatever a scan_rfid_single call returns is an RfidScanResult, with
\* success and a tag or with no success and an error, also when the scan timed
\* out or the gate could not be taken in time.
C19_StructuredResult ==
    oneshot.pc = "idle" => oneshot.result \in {"none", "success", "failure"}

\* What does hold: a call that got the gate returns an RfidScanResult.
C19_ScanStructured ==
    [][oneshot.pc = "scan" /\ oneshot'.pc = "idle"
       => oneshot'.result \in {"success", "failure"}]_vars

(* Properties of one poll *)
\* The first select fails with an incomplete frame and the k-th, within the six
\* of the budget, is the first to succeed: all before it are incomplete frames.
RetrySucceeds(k) ==
    /\ reader.card
    /\ k > 1
    /\ reader.selects[k].ok
    /\ \A j \in 1..(k - 1) :
         ~reader.selects[j].ok /\ reader.selects[j].error = "IncompleteFrame"

C21_CommandsInOrder ==
    [][command_rx' # command_rx =>
         \/ \E command \in {"Start", "Stop"} : command_rx' = Append(command_rx, command)
         \/ /\ svc = "recv"
            /\ command_rx # <<>>
            /\ command_rx' = Tail(command_rx)
            /\ Head(command_rx) = "Stop" => ~should_run'
            /\ Head(command_rx) = "Start" => is_running']_vars

\* A Stop handler is past its join timeout while the next command waits.
C21_Witness == svc = "settle" /\ command_rx # <<>>

\* C22: after a Stop whose join timed out and whose task was cancelled,
\* is_running is false only once the worker has stopped: no worker of a
\* cancelled task holds the hardware gate (under which it initialises and
\* polls the reader) while is_running is false.
C22_StoppedMeansWorkerGone ==
    \A i \in TaskIds :
        (task[i] \in {"aborted", "finished"} /\ SPI_ACCESS_MUTEX = i) => is_running

\* No scan task is alive behind the handle of the loop.
NoLiveHandle == scan_task_handle = NoHandle \/ task[scan_task_handle] = "finished"

\* C23: a Start handled in Idle (no live task behind the handle, is_running
\* false) spawns exactly one task, which the handle then names, and sets
\* should_run and is_running; a Start handled while Running (should_run and
\* is_running true) spawns nothing and leaves should_run, last_scan and
\* error_count as they are.
C23_StartIdleAndRunning ==
    [][Handles("Start") =>
         /\ (NoLiveHandle /\ ~is_running)
              => /\ Cardinality(Spawned') = Cardinality(Spawned) + 1
                 /\ scan_task_handle' \in Spawned' \ Spawned
                 /\ task'[scan_task_handle'] = "running"
                 /\ should_run' /\ is_running'
         /\ (should_run /\ is_running)
              => /\ task' = task
                 /\ scan_task_handle' = scan_task_handle
                 /\ should_run' = should_run
                 /\ last_scan' = last_scan
                 /\ error_count' = error_count]_vars

\* The one task a first Start spawned has counted a fault and seen a tag, and
\* the last Start the loop handled found the service running and was ignored.
C23_Witness ==
    /\ handled.command = "Start" /\ handled.did = "ignored"
    /\ Spawned = {1}
    /\ is_running /\ should_run
    /\ error_count > 0
    /\ last_scan # NoneOpt

\* C24: when the scan task has ended by itself, the next command the loop takes
\* first reaps its handle and clears both flags: a Stop then leaves the service
\* Idle (no handle, both flags false), where a later Start spawns, and a Start
\* spawns a fresh task at once and is not ignored as already running.
C24_ReapThenFreshStart ==
    [][((Handles("Start") \/ Handles("Stop"))
          /\ scan_task_handle # NoHandle /\ task[scan_task_handle] = "finished")
       => /\ handled'.reaped
          /\ Handles("Stop")
               => scan_task_handle' = NoHandle /\ ~should_run' /\ ~is_running'
          /\ Handles("Start")
               => /\ handled'.did = "started"
                  /\ scan_task_handle' \in Spawned' \ Spawned
                  /\ task'[scan_task_handle'] = "running"
                  /\ should_run' /\ is_running']_vars

\* Task 1 ended by itself (a Stop would have taken its handle away), the Start
\* that came next reaped it and spawned task 2.
C24_Witness ==
    /\ handled = [command |-> "Start", reaped |-> TRUE, did |-> "started"]
    /\ task[1] = "finished"
    /\ scan_task_handle = 2
    /\ task[2] = "running"
    /\ should_run /\ is_running

\* initialize_persistent_scanner of worker i returns in this step.
InitReturns(i) == worker[i].pc = "init" /\ worker'[i].pc # "init"

\* C25: a worker never counts more than three failed initialisations. The
\* third failure in a row ends it: it returns, the gate is free, is_running and
\* should_run are false and last_error is set; an earlier failure is counted and
\* retried and changes none of these; a successful initialisation sets the
\* count back to zero.
C25_InitRetriesExhausted ==
    /\ [](\A i \in TaskIds : worker[i].init_attempts < 3)
    /\ [][\A i \in TaskIds : InitReturns(i) =>
            \/ /\ worker'[i].pc = "poll"
               /\ worker'[i].init_attempts = 0
               /\ UNCHANGED <<is_running, should_run, last_error, SPI_ACCESS_MUTEX>>
            \/ /\ worker'[i].pc = "backoff"
               /\ worker[i].init_attempts + 1 < 3
               /\ worker'[i].init_attempts = worker[i].init_attempts + 1
               /\ UNCHANGED <<is_running, should_run, last_error, SPI_ACCESS_MUTEX>>
            \/ /\ worker'[i].pc = "done"
               /\ worker[i].init_attempts + 1 = 3
               /\ ~is_running' /\ ~should_run'
               /\ last_error' # NoneOpt
               /\ SPI_ACCESS_MUTEX = i /\ SPI_ACCESS_MUTEX' = Unlocked]_vars

\* Worker 1 has returned after its third failed initialisation, its task has
\* not ended yet: the error is recorded, the flags are false, the gate is free.
C25_Witness ==
    /\ task[1] = "running"
    /\ worker[1].pc = "done"
    /\ last_error = Some(Err("Scanner initialization failed", ""))
    /\ ~is_running /\ ~should_run
    /\ SPI_ACCESS_MUTEX = Unlocked

\* The initialisation of worker i fails in this step for the third time in a
\* row, which exhausts the retries.
InitExhausted(i) == InitReturns(i) /\ worker'[i].pc = "done"

\* C26: before the retries are declared exhausted the worker has backed off
\* three times, for 1 s, 2 s and 3 s.
C26_BackoffOneTwoThree ==
    [][\A i \in TaskIds : InitExhausted(i) => worker[i].backoffs = <<1, 2, 3>>]_vars

\* What does hold: the k-th failure is followed by a sleep of k seconds while
\* k is below the maximum, and the retries are exhausted after sleeps of 1 s
\* and 2 s, with no sleep after the third failure.
C26_BackoffOneTwo ==
    [][\A i \in TaskIds :
         /\ InitExhausted(i) => worker[i].backoffs = <<1, 2>>
         /\ (InitReturns(i) /\ worker'[i].pc = "backoff")
              => worker'[i].backoffs = Append(worker[i].backoffs, worker[i].init_attempts + 1)]_vars

\* scan_with_persistent_scanner_sync of worker i returns in this step.
ScanReturns(i) == worker[i].pc = "scan" /\ worker'[i].pc # "scan"

\* C27: the count of consecutive faults of a polling worker stays below 15. A
\* poll that returns a tag sets it to zero, a benign one (nothing counted in
\* error_count) leaves it, a real fault (counted in error_count) adds one; the
\* fifteenth in a row ends the polling of this scanner: the worker sleeps and
\* goes back to the head of its loop, where it initialises a scanner from
\* scratch if it should still run, or returns at once if it should not. Polling
\* is entered from an initialisation only, so never again with that scanner.
C27_FaultThresholdReinit ==
    /\ [](\A i \in TaskIds : worker[i].consecutive_errors < 15)
    /\ [][\A i \in TaskIds :
            /\ ScanReturns(i) =>
                 \/ /\ worker'[i].pc = "debounce"
                    /\ worker'[i].consecutive_errors = 0
                    /\ error_count' = error_count
                 \/ /\ worker'[i].pc = "poll"
                    /\ worker'[i].consecutive_errors = worker[i].consecutive_errors
                    /\ error_count' = error_count
                 \/ /\ worker'[i].pc = "poll"
                    /\ worker'[i].consecutive_errors = worker[i].consecutive_errors + 1
                    /\ error_count' = error_count + 1
                 \/ /\ worker[i].consecutive_errors + 1 = 15
                    /\ error_count' = error_count + 1
                    /\ worker'[i].pc = (IF should_run THEN "reinit" ELSE "done")
                    /\ worker'[i].consecutive_errors = 0
            /\ (worker[i].pc = "reinit" /\ worker'[i].pc # "reinit")
                 => worker'[i].pc = "check"
            /\ (worker[i].pc = "check" /\ worker'[i].pc # "check")
                 => worker'[i].pc = (IF should_run THEN "init" ELSE "done")
            /\ (worker[i].pc \notin {"poll", "scan", "debounce"} /\ worker'[i].pc = "poll")
                 => worker[i].pc = "init"]_vars

\* A fault, then a tag that set the count back, then fifteen faults in a row:
\* worker 1 has given its scanner up and sleeps before it initialises another.
C27_Witness ==
    /\ worker[1].pc = "reinit"
    /\ should_run
    /\ error_count = 16
    /\ last_scan # NoneOpt

(* Properties of one poll: its effect on the state of the service *)
\* C28: a poll that finds no card or times out leaves error_count and
\* last_error as they are; one that fails otherwise adds exactly one to
\* error_count and sets last_error to its error; one that reads a tag clears
\* last_error, sets last_scan to the tag and leaves error_count.
C28_PollOutcomeEffects ==
    [][(scanned = NoneOpt /\ scanned' # NoneOpt) =>
         LET result == scanned'[1]
         IN  IF result.ok
               THEN /\ last_error' = NoneOpt
                    /\ last_scan' = Some(result.value)
                    /\ error_count' = error_count
               ELSE IF result.kind = "No card detected" \/ result.detail = "Timeout"
                 THEN /\ error_count' = error_count
                      /\ last_error' = last_error
                 ELSE /\ error_count' = error_count + 1
                      /\ last_error' = Some(result)]_vars

\* Six selects answered with an incomplete frame are a real fault: it was
\* counted on top of the errors there were and is the last error.
C28_Witness ==
    /\ scanned = Some(Err("Select failed", "IncompleteFrame"))
    /\ last_error = scanned
    /\ error_count = MaxErrorCount + 1

(* Properties of the cancellation of the worker *)
\* C29: the worker looks at should_run once per turn of its loops and begins
\* a poll, or an initialisation, only when it found it set: so with should_run
\* false for good no poll begins, the one under way is the last and emits the
\* last scan event. A check that finds should_run false ends the worker, which
\* returns without its scanner and frees the gate; and a worker that holds the
\* gate does not hold it for ever while should_run stays false.
C29_CooperativeCancel ==
    /\ [][\A i \in TaskIds :
            /\ (worker[i].pc # "scan" /\ worker'[i].pc = "scan")
                 => worker[i].pc = "poll" /\ should_run
            /\ (worker[i].pc # "init" /\ worker'[i].pc = "init")
                 => worker[i].pc = "check" /\ should_run
            /\ (worker[i].pc \in {"poll", "check"} /\ worker'[i].pc # worker[i].pc /\ ~should_run)
                 => /\ worker'[i].pc = "done"
                    /\ SPI_ACCESS_MUTEX = i /\ SPI_ACCESS_MUTEX' = Unlocked
            /\ (last_scan' # last_scan /\ ScanReturns(i)) => worker'[i].pc = "debounce"]_vars
    /\ \A i \in TaskIds : (SPI_ACCESS_MUTEX = i) ~> (should_run \/ SPI_ACCESS_MUTEX # i)

\* A Stop is being handled: worker 1, which had read a tag and met no fault,
\* found should_run false at its check and has returned; the gate is free.
C29_Witness ==
    /\ svc = "join" /\ ~should_run
    /\ task[1] = "running"
    /\ worker[1].pc = "done"
    /\ SPI_ACCESS_MUTEX = Unlocked
    /\ last_scan # NoneOpt
    /\ last_error = NoneOpt /\ error_count = 0
    /\ platform = "hardware"

(* Properties of the drain: an answer that ends the pass *)
\* The request of caller d is answered and the pass ends with that answer: an
\* authentication failure (401), or a request that could not be sent, which
\* ends the pass in the same way and takes NETWORK_AVAILABLE down as well.
PassEndsAtAnswer(d) == pc[d] = "send" /\ pc'[d] \notin {"send", "loop"}

\* C30: when the send of a cached record is answered with 401, the pass stops
\* at once: the records it had still to visit are dropped unvisited, no file
\* is written or removed, and the record that was refused is in the cache.
C30_AuthFailureStopsDrain ==
    [][\A d \in Drainers :
         (PassEndsAtAnswer(d) /\ NETWORK_AVAILABLE' = NETWORK_AVAILABLE) =>
           /\ cached_scans'[d] = <<>>
           /\ ~PROCESSING'
           /\ files' = files
           /\ PersistedAfter(scan[d]) # {}]_vars

\* What does hold: the pass stops at once and touches no file.
C30_DrainStopsAtOnce ==
    [][\A d \in Drainers :
         (PassEndsAtAnswer(d) /\ NETWORK_AVAILABLE' = NETWORK_AVAILABLE) =>
           /\ cached_scans'[d] = <<>>
           /\ ~PROCESSING'
           /\ files' = files]_vars

(***************************************************************************)
(* Properties of the drain: what a pass does to the cache                  *)
(***************************************************************************)

SameRecord(r, s) == r.tag_id = s.tag_id /\ r.created_at = s.created_at
Sends(d) == pc[d] = "send" /\ pc'[d] # "send"
\* The request of caller d is answered with success, or in another way, for a
\* record that was not delivered before.
AnsweredSuccess(d) == Sends(d) /\ scan[d].created_at \in delivered' \ delivered
AnsweredFailure(d) ==
    Sends(d) /\ delivered' = delivered /\ scan[d].created_at \notin delivered

\* No record a pass holds shares its file with another record.
NoSharedFile ==
    \A t \in 1..MaxClock : Alone(t)

\* In a drain a record leaves the cache only in the step that answers its send
\* with success, that step removes it, and an answer of another kind leaves it
\* in the cache with the attempts the pass counted.
RemovedOnlyOnSuccess ==
    /\ \A r \in Pending(files) :
         (clock' = clock /\ PersistedAfter(r) = {})
         => \E d \in Drainers : AnsweredSuccess(d) /\ SameRecord(r, scan[d])
    /\ \A d \in Drainers :
         /\ AnsweredSuccess(d) => PersistedAfter(scan[d]) = {}
         /\ AnsweredFailure(d) =>
              \E r \in PersistedAfter(scan[d]) : r.attempts = scan[d].attempts

\* C32: in a drain, a record is removed from the cache only after its send was
\* answered with success, a success below the cap removes it, and after any
\* other answer the record is in the cache with its incremented attempts.
C32_RemovedOnlyOnSuccess == [][RemovedOnlyOnSuccess]_vars

\* What does hold: the same while no file operation has failed and no two
\* records share a file name.
C32_RemovedOnlyOnSuccessNoFaults ==
    [][(ioFaults' = 0 /\ NoSharedFile) => RemovedOnlyOnSuccess]_vars

\* The step is one of caller d's pass at the head of the records it has still
\* to visit.
Visits(d) ==
    /\ pc[d] = "loop" /\ cached_scans[d] # <<>>
    /\ <<pc[d], cached_scans[d]>>' # <<pc[d], cached_scans[d]>>

\* C33: a pass visits its records oldest first: the records still to visit are
\* in non-decreasing order of created_at and none is older than the one being
\* sent. A record at the cap is passed over, with no request and no file
\* changed, and the pass goes on with the records after it; a record below
\* the cap is the next to be sent.
C33_OldestFirstPastCapped ==
    /\ [](\A d \in Drainers :
            /\ Sorted(cached_scans[d])
            /\ pc[d] = "send" =>
                 \A i \in 1..Len(cached_scans[d]) :
                    scan[d].created_at <= cached_scans[d][i].created_at)
    /\ [][\A d \in Drainers :
            Visits(d) =>
              /\ cached_scans'[d] = Tail(cached_scans[d])
              /\ IF Head(cached_scans[d]).attempts >= 3
                   THEN pc'[d] = "loop" /\ files' = files /\ scan' = scan
                   ELSE pc'[d] = "send" /\ SameRecord(scan'[d], Head(cached_scans[d]))]_vars

\* A pass has listed two records, the older one at the cap and the younger one
\* never tried, and is at the older one.
C33_Witness ==
    \E d \in Drainers :
        /\ pc[d] = "loop"
        /\ Len(cached_scans[d]) = 2
        /\ cached_scans[d][1].attempts = 3
        /\ cached_scans[d][2].attempts = 0
        /\ cached_scans[d][1].created_at < cached_scans[d][2].created_at

(***************************************************************************)
(* Properties of remove_cached_scan                                        *)
(***************************************************************************)

\* C34: the removal after a delivery takes away the record with the identity
\* key (tag_id, created_at in milliseconds) of the record delivered, if the
\* cache holds one, and leaves every other record as it was, adding none. A
\* removal for a key the cache does not hold succeeds and changes nothing. A
\* removal that fails changes nothing either.
C34_RemoveExactMatch ==
    /\ [][\A d \in Drainers :
            AnsweredSuccess(d) =>
              /\ \A r \in Pending(files) :
                    file_name(r) # file_name(scan[d]) => r \in Pending(files')
              /\ Pending(files') \subseteq Pending(files)
              /\ IF ioFaults' = ioFaults
                   THEN DOMAIN files' = DOMAIN files \ {file_name(scan[d])}
                   ELSE files' = files]_vars
    /\ [](\A d \in Drainers :
            (pc[d] = "send" /\ file_name(scan[d]) \notin DOMAIN files)
            => remove_cached_scan(files, scan[d], "none") = [files |-> files, ok |-> TRUE])

\* A pass that listed two records has delivered the older one and removed it;
\* the younger one, still to be visited, is in the cache as it was enqueued.
C34_Witness ==
    \E d \in Drainers, r \in Pending(files) :
        /\ pc[d] = "loop"
        /\ cached_scans[d] = <<r>>
        /\ r.attempts = 0
        /\ delivered # {}
        /\ \A t \in delivered : t < r.created_at /\ ~InCache(t)
        /\ ioFaults = 0

(***************************************************************************)
(* Properties of the one-shot scan: its order                              *)
(***************************************************************************)

\* C35: a scan_rfid_single call goes through its steps in one order: it sends
\* Stop; its wait for is_running = false ends, seen or timed out, and in both
\* cases it goes on to the gate; it takes the gate when the gate is free and
\* scans, or returns the error when it is not; the scan over, it frees the
\* gate and returns the result of the scan. It holds the gate all through the
\* scan.
C35_OneShotOrder ==
    /\ [][oneshot'.pc # oneshot.pc =>
            \/ /\ oneshot.pc = "idle" /\ oneshot'.pc = "wait"
               /\ command_rx' = Append(command_rx, "Stop")
               /\ SPI_ACCESS_MUTEX' = SPI_ACCESS_MUTEX
            \/ /\ oneshot.pc = "wait" /\ oneshot'.pc = "lock"
               /\ SPI_ACCESS_MUTEX' = SPI_ACCESS_MUTEX
            \/ /\ oneshot.pc = "lock" /\ oneshot'.pc = "scan"
               /\ SPI_ACCESS_MUTEX = Unlocked /\ SPI_ACCESS_MUTEX' = OneShotGuard
            \/ /\ oneshot.pc = "lock" /\ oneshot'.pc = "idle"
               /\ SPI_ACCESS_MUTEX # Unlocked /\ SPI_ACCESS_MUTEX' = SPI_ACCESS_MUTEX
               /\ oneshot'.result = "Err"
            \/ /\ oneshot.pc = "scan" /\ oneshot'.pc = "idle"
               /\ SPI_ACCESS_MUTEX' = Unlocked
               /\ oneshot'.result \in {"success", "failure"}]_vars
    /\ [](oneshot.pc = "scan" => SPI_ACCESS_MUTEX = OneShotGuard)

\* On the hardware build a call made while the service was scanning holds the
\* gate and scans although is_running is still true: its wait timed out.
C35_Witness ==
    /\ platform = "hardware"
    /\ oneshot.pc = "scan" /\ oneshot.active
    /\ is_running
    /\ SPI_ACCESS_MUTEX = OneShotGuard

(***************************************************************************)
(* Properties of one scan: the selects it makes                            *)
(***************************************************************************)

\* The select that ends the scan of reader r: the first that succeeds or fails
\* with another error than an incomplete frame, or the sixth.
Decisive(r) ==
    LET ends == {k \in 1..6 : r.selects[k].ok \/ r.selects[k].error # "IncompleteFrame"}
    IN  IF ends = {} THEN 6 ELSE CHOOSE k \in ends : \A j \in ends : k <= j
Count(calls, what) == Cardinality({k \in 1..Len(calls) : calls[k] = what})

\* C36: a scan that found a card makes at most six selects, a further one only
\* after a select that failed with an incomplete frame: it ends at the first
\* select that succeeds or fails with another error, or at the sixth, returns
\* the UID of a select that succeeded and a failure otherwise, and its last
\* call on the reader, made once, is the halt.
C36_BoundedSelectsThenHalt ==
    (scanned # NoneOpt /\ reader.card) =>
        LET calls == select_calls(reader.selects, 0)
            last == reader.selects[Decisive(reader)]
        IN  /\ Count(calls, "select") = Decisive(reader)
            /\ Count(calls, "select") <= 6
            /\ Count(calls, "hlta") = 1
            /\ calls[Len(calls)] = "hlta"
            /\ scanned = IF last.ok THEN Some(Ok(format_uid(last.uid)))
                         ELSE Some(Err("Select failed", last.error))

\* A scan whose six selects all failed with an incomplete frame has returned
\* the failure.
C36_Witness ==
    /\ reader.card
    /\ \A k \in 1..6 : ~reader.selects[k].ok /\ reader.selects[k].error = "IncompleteFrame"
    /\ scanned = Some(Err("Select failed", "IncompleteFrame"))
    /\ Len(select_calls(reader.selects, 0)) = 12

(***************************************************************************)
(* Properties of the sessions of the scan service                          *)
(***************************************************************************)

\* Task i belongs to an earlier session than the one whose handle the command
\* loop holds, and the step is one of its worker, of its task or of the
\* detached join task that awaits it.
Leftover(i) ==
    /\ scan_task_handle # NoHandle
    /\ i < scan_task_handle
    /\ \/ worker'[i] # worker[i]
       \/ task'[i] # task[i]
       \/ i \in detached /\ i \notin detached'

\* What an earlier session may still do: end, without a write to the flags
\* and without a new poll or initialisation of its worker.
OldSessionLeavesFlags(i) ==
    /\ should_run' = should_run
    /\ is_running' = is_running
    /\ worker'[i].pc \in {"scan", "init", "mock_scan"} => worker'[i].pc = worker[i].pc

\* C37: once a Start has spawned the worker of a new session, nothing that
\* belongs to an earlier session writes should_run or is_running, and no
\* leftover worker starts to poll or to initialise again.
C37_OldSessionLeavesFlags ==
    [][\A i \in TaskIds : Leftover(i) => OldSessionLeavesFlags(i)]_vars

\* What does hold: on the mock build, where a task that is aborted takes its
\* scan loop with it, nothing of an earlier session takes a step once a new
\* session has been spawned.
C37_MockNothingLeftOver ==
    [][\A i \in TaskIds : platform = "mock" => ~Leftover(i)]_vars

(***************************************************************************)
(* Properties of the drain: the single-flight flag                         *)
(***************************************************************************)

\* C38: PROCESSING is set exactly while a caller is inside a pass: every step
\* that ends a pass, on whatever path, clears it, and a trigger that finds it
\* clear sets it and runs a pass.
C38_FlagClearedOnEveryExit ==
    /\ [](PROCESSING <=> InPass # {})
    /\ [][\A d \in Drainers :
            /\ (d \in InPass /\ pc'[d] \notin {"prepare", "loop", "send"}) => ~PROCESSING'
            /\ (pc[d] = (IF d = "timer" THEN "idle" ELSE "enter") /\ pc'[d] # pc[d] /\ ~PROCESSING)
                 => pc'[d] = "prepare" /\ PROCESSING']_vars

\* A pass has ended after a send that failed, and the next trigger, of the
\* spawned task, has set the flag again and runs.
C38_Witness ==
    /\ PROCESSING
    /\ pc["spawned"] = "prepare"
    /\ pc["timer"] \in {"idle", "post"}
    /\ delivered = {}
    /\ ioFaults = 0
    /\ \E r \in Pending(files) : r.attempts = 1

(***************************************************************************)
(* Properties of the enqueue                                               *)
(***************************************************************************)

\* A submission caches its scan in this step and returns the soft error.
Enqueues == clock' # clock /\ ret'.result = "SoftErr"

\* C39: an enqueue that succeeds adds one record and replaces none: the cache
\* holds every record it held and one more, also when the new scan is of a tag
\* scanned within the same millisecond before.
C39_EnqueueAddsOne ==
    [][Enqueues =>
         /\ Pending(files) \subseteq Pending(files')
         /\ Cardinality(Pending(files')) = Cardinality(Pending(files)) + 1]_vars

\* What does hold: the same for a scan whose tag and millisecond are not those
\* of a record in the cache.
C39_NewNameAddsOne ==
    [][(/\ Enqueues
        /\ \A r \in Pending(files), q \in Pending(files') :
              q.created_at = clock' => file_name(q) # file_name(r))
       => /\ Pending(files) \subseteq Pending(files')
          /\ Cardinality(Pending(files')) = Cardinality(Pending(files)) + 1]_vars

(***************************************************************************)
(* Properties of stop_rfid_service: what its Ok tells                      *)
(***************************************************************************)

\* The last call of the frontend was a stop_rfid_service that returned Ok.
StopReturnedOk == call.cmd = "stop" /\ call.pc = "idle" /\ call.result = "Ok"

\* C40: when stop_rfid_service returns Ok the command loop has taken the Stop
\* it sent and no worker is active; and for as long as the frontend sends
\* nothing more no worker becomes active: a Start sent before the call cannot
\* bring the service up behind it.
C40_StopOkMeansStopped ==
    /\ [][(StopReturns /\ call'.result = "Ok") =>
            /\ command_rx = <<>>
            /\ \A i \in TaskIds : ~InSession(i)]_vars
    /\ [][(StopReturnedOk /\ call' = call /\ oneshot' = oneshot) =>
            \A i \in TaskIds : InSession(i)' => InSession(i)]_vars

\* What does hold: stop_rfid_service returns Ok only when its poll read
\* is_running false, and after it no new scan task is spawned while no Start
\* waits in the channel.
C40_StopOkReadsStopped ==
    /\ [][(StopReturns /\ call'.result = "Ok") => ~is_running]_vars
    /\ [][(StopReturnedOk /\ call' = call /\ StartsIn(command_rx) = 0)
            => Spawned' = Spawned]_vars
====
